---- MODULE Spec2Model ----
\* Model of the MultiObjective scheduler plugin (pkg/multiobjective): the
\* PreScore / Score extension points, the selection of a target node from a
\* SchedulingHint and the optimistic slot reservation against the hint store.
EXTENDS Integers, Sequences, FiniteSets, Bags, TLC

VARIABLES
    store,         \* the SchedulingHint objects of the API server, by name
    plan0,         \* the store as it was before any pod was scored (history)
    now,           \* the time at which the pods are scheduled
    controlPlane,  \* names of the nodes labelled node-role.kubernetes.io/control-plane
    faulty,        \* the pods whose API calls may fail for other reasons than a conflict
    serial,        \* whether scheduling cycles run one after another
    pods,          \* the pods to be scheduled
    pc,            \* per pod: position of its scheduling cycle
    cycle,         \* per pod: what the CycleState holds under stateKey
    score,         \* per pod and node: what Score returned
    rsv,           \* per pod: the tryConsumeSlot call in progress on the target node
    commits,       \* per pod: conditional writes the store accepted (history)
    calls,         \* per pod: the API calls made for it and what they showed (history)
    status,        \* per pod: the statuses PreScore and Score returned (history)
    input,         \* the arguments of a function of the packages called on its own
    output         \* what that call returned

schedVars == <<store, plan0, now, controlPlane, faulty, serial, pods, pc, cycle,
               score, rsv, commits, calls, status>>

vars == <<store, plan0, now, controlPlane, faulty, serial, pods, pc, cycle,
          score, rsv, commits, calls, status, input, output>>

----------------------------------------------------------------------------
\* Bounds of the model

NumPods == 2            \* pods of a concurrent run
NumSerialPods == 3      \* pods of a run that schedules one pod after another
MaxTarget == 2          \* largest target count of one node in a movement
MaxReplicas == 4        \* largest sum of the target counts of a movement
NumRacers == 4          \* pods that reserve on one node at the same time
WeightSteps == 4        \* the weights of a configuration are multiples of 1/WeightSteps
MaxNodesListed == 3     \* nodes in the list a fingerprint is computed from
MaxReplicaSetsListed == 3   \* ReplicaSets in that list
MaxPopSize == 2         \* individuals in the population of an NSGA-II run
MaxGenerations == 2     \* generations of an NSGA-II run
MaxVariables == 2       \* variables of a real-valued solution
MaxWatts == 2           \* idle and busy power of a node
MaxMilliCPU == 6        \* allocatable CPU of a node, CPU request of a pod
MaxIndividuals == 4     \* individuals of a population handed to an operator
NumCandidates == 2      \* candidate nodes of the scheduling problem
MaxBits == 3            \* bits of a binary solution handed to an operator
IntWidth == 4           \* bits of the signed integers of the resource totals
MaxContainers == 2      \* containers of a pod

----------------------------------------------------------------------------
\* Program constants

MinNodeScore == 0
MaxNodeScore == 100
maxRetries == 3
stateKey == "MultiObjective"

----------------------------------------------------------------------------
\* The cluster

Nodes == {"A", "B", "C"}
Fingerprints == {"f1", "f2"}
NoHint == [Name |-> "none"]
NoScore == MinNodeScore - 1
NoState == [kind |-> "absent"]
ForeignState == [kind |-> "foreign"]

\* A pod: its namespace, its owner references, and the nodes that pass the
\* filters for it (what the framework hands to PreScore as filteredNodes)
WebPod(fits) ==
    [Namespace |-> "default",
     OwnerReferences |-> <<[Kind |-> "ReplicaSet", Name |-> "web"]>>,
     Fits |-> fits]
ApiPod(fits) ==
    [Namespace |-> "default",
     OwnerReferences |-> <<[Kind |-> "ReplicaSet", Name |-> "api"]>>,
     Fits |-> fits]
BarePod(fits) ==
    [Namespace |-> "default", OwnerReferences |-> <<>>, Fits |-> fits]
StatefulPod(fits) ==
    [Namespace |-> "default",
     OwnerReferences |-> <<[Kind |-> "StatefulSet", Name |-> "web"]>>,
     Fits |-> fits]

generateHintName(fingerprint) == "multiobjective-hints-" \o fingerprint

HintNames == {generateHintName(f) : f \in Fingerprints}

\* The fingerprint the scorer computes from the nodes and ReplicaSets listed
\* while pods are scheduled: the cluster does not change during a run, and its
\* digest is written f1
CurrentFingerprint == "f1"

RECURSIVE FirstReplicaSetOwner(_, _)
FirstReplicaSetOwner(owners, i) ==
    IF i > Len(owners) THEN 0
    ELSE IF owners[i].Kind = "ReplicaSet" THEN i
    ELSE FirstReplicaSetOwner(owners, i + 1)

getReplicaSetKey(pod) ==
    LET i == FirstReplicaSetOwner(pod.OwnerReferences, 1)
    IN  IF i > 0 THEN pod.Namespace \o "/" \o pod.OwnerReferences[i].Name
        ELSE pod.Namespace \o "/unknown"

MovementKey(movement) == movement.Namespace \o "/" \o movement.ReplicaSetName

\* Index of the first movement of the solution for rsKey, 0 if there is none
RECURSIVE FindMovement(_, _, _)
FindMovement(movements, rsKey, i) ==
    IF i > Len(movements) THEN 0
    ELSE IF MovementKey(movements[i]) = rsKey THEN i
    ELSE FindMovement(movements, rsKey, i + 1)

----------------------------------------------------------------------------
\* Go maps from node name to count: a missing key reads as 0

MapGet(m, k) == IF k \in DOMAIN m THEN m[k] ELSE 0

MapPut(m, k, v) == [x \in DOMAIN m \cup {k} |-> IF x = k THEN v ELSE m[x]]

\* The orders in which a range loop may visit the keys of a map
IterationOrders(m) ==
    {o \in [1..Cardinality(DOMAIN m) -> DOMAIN m] :
        \A i, j \in DOMAIN o : i # j => o[i] # o[j]}

----------------------------------------------------------------------------
\* selectBestNode

\* AvailableNodes that does not look at filteredNodes
AvailableNodesUnfiltered(filteredNodes, labelled) ==
    {n \in Nodes : n \notin labelled}

\* The set built from filteredNodes with the control-plane nodes left in
AvailableNodesLabelled(filteredNodes, labelled) == filteredNodes

\* The set built from filteredNodes: control-plane nodes are left out
AvailableNodes(filteredNodes, labelled) ==
    {n \in filteredNodes : n \notin labelled}

\* ScanDistribution that does not look at the available slots
RECURSIVE ScanDistributionAnySlot(_, _, _, _, _, _)
ScanDistributionAnySlot(movement, availableNodes, order, i, bestNode, maxTarget) ==
    IF i > Len(order) THEN bestNode
    ELSE LET nodeName == order[i]
             targetCount == movement.TargetDistribution[nodeName]
         IN  IF nodeName \in availableNodes /\ targetCount > maxTarget
             THEN ScanDistributionAnySlot(movement, availableNodes, order, i + 1,
                                          nodeName, targetCount)
             ELSE ScanDistributionAnySlot(movement, availableNodes, order, i + 1,
                                          bestNode, maxTarget)

\* ScanDistribution that keeps the first node with a slot, whatever its target
RECURSIVE ScanDistributionFirst(_, _, _, _, _, _)
ScanDistributionFirst(movement, availableNodes, order, i, bestNode, maxTarget) ==
    IF i > Len(order) THEN bestNode
    ELSE LET nodeName == order[i]
             targetCount == movement.TargetDistribution[nodeName]
             availableSlots == MapGet(movement.AvailableSlots, nodeName)
         IN  IF nodeName \in availableNodes /\ availableSlots > 0 /\ bestNode = ""
             THEN ScanDistributionFirst(movement, availableNodes, order, i + 1,
                                        nodeName, targetCount)
             ELSE ScanDistributionFirst(movement, availableNodes, order, i + 1,
                                        bestNode, maxTarget)

\* The loop over movement.TargetDistribution, visiting the keys in `order`
RECURSIVE ScanDistribution(_, _, _, _, _, _)
ScanDistribution(movement, availableNodes, order, i, bestNode, maxTarget) ==
    IF i > Len(order) THEN bestNode
    ELSE LET nodeName == order[i]
             targetCount == movement.TargetDistribution[nodeName]
             availableSlots == MapGet(movement.AvailableSlots, nodeName)
         IN  IF nodeName \notin availableNodes
             THEN ScanDistribution(movement, availableNodes, order, i + 1,
                                   bestNode, maxTarget)
             ELSE IF availableSlots > 0 /\ targetCount > maxTarget
             THEN ScanDistribution(movement, availableNodes, order, i + 1,
                                   nodeName, targetCount)
             ELSE ScanDistribution(movement, availableNodes, order, i + 1,
                                   bestNode, maxTarget)

\* The nodes selectBestNode may return ("" for none), over all iteration orders
selectBestNode(solution, rsKey, filteredNodes, labelled) ==
    LET i == FindMovement(solution.ReplicaSetMovements, rsKey, 1)
    IN  IF i = 0 THEN {""}
        ELSE LET movement == solution.ReplicaSetMovements[i]
             IN  {ScanDistribution(movement,
                                   AvailableNodes(filteredNodes, labelled),
                                   order, 1, "", 0) :
                     order \in IterationOrders(movement.TargetDistribution)}

----------------------------------------------------------------------------
\* getSchedulingHint

\* What may go wrong before the hint is fetched, and at the fetch
LookupFailures == {"nodes", "replicasets", "config", "clientset", "get"}

\* getSchedulingHint that takes whatever hint the store holds
getSchedulingHintAny(st, failure) ==
    LET found == {name \in HintNames : st[name] # NoHint
                                        /\ Len(st[name].Spec.Solutions) > 0}
    IN  IF found = {}
        THEN [hint |-> NoHint, hasSolution |-> FALSE, err |-> FALSE]
        ELSE [hint |-> st[CHOOSE name \in found : TRUE], hasSolution |-> TRUE,
              err |-> FALSE]

\* failure: "none" or one of LookupFailures. The result: the hint (NoHint for
\* nil), whether a top solution is returned, and whether err is non-nil.
getSchedulingHint(st, failure) ==
    IF failure \in {"nodes", "replicasets", "config", "clientset"}
    THEN [hint |-> NoHint, hasSolution |-> FALSE, err |-> TRUE]
    ELSE LET fingerprint == CurrentFingerprint
             hintName == generateHintName(fingerprint)
             hint == st[hintName]
         IN  IF failure = "get" \/ hint = NoHint
             THEN [hint |-> NoHint, hasSolution |-> FALSE, err |-> FALSE]
             ELSE IF Len(hint.Spec.Solutions) = 0
             THEN [hint |-> NoHint, hasSolution |-> FALSE, err |-> TRUE]
             ELSE [hint |-> hint, hasSolution |-> TRUE, err |-> FALSE]

----------------------------------------------------------------------------
\* The scheduling cycle of a pod

Pods == DOMAIN pods

\* All Score calls of the cycle have returned
CycleOver(p) ==
    /\ pc[p] = "scoring"
    /\ \A n \in pods[p].Fits : score[p][n] # NoScore

\* The framework starts a cycle at any time, or, when it schedules one pod
\* after another, only when no other cycle is under way
MayStart(p) ==
    /\ pc[p] = "pending"
    /\ serial => \A q \in Pods \ {p} : pc[q] = "pending" \/ CycleOver(q)

\* How an API call made for pod p may fail
Failures(p, kinds) == IF p \in faulty THEN {"none"} \cup kinds ELSE {"none"}

\* A PreScore that records the hint as soon as there is one, whether or not a
\* target node was found in it
PreScoreStateHinted(pod, got, filteredNodes, labelled) ==
    LET rsKey == getReplicaSetKey(pod)
    IN  IF got.err \/ got.hint = NoHint \/ ~got.hasSolution
        THEN {[kind |-> "MultiObjectiveState", TargetNode |-> "",
               HasHint |-> FALSE, Hint |-> NoHint, RSKey |-> rsKey]}
        ELSE {[kind |-> "MultiObjectiveState", TargetNode |-> targetNode,
               HasHint |-> TRUE, Hint |-> got.hint, RSKey |-> rsKey] :
                 targetNode \in selectBestNode(got.hint.Spec.Solutions[1], rsKey,
                                               filteredNodes, labelled)}

\* The state PreScore writes under stateKey
PreScoreState(pod, got, filteredNodes, labelled) ==
    LET rsKey == getReplicaSetKey(pod)
        noHintState == [kind |-> "MultiObjectiveState", TargetNode |-> "",
                        HasHint |-> FALSE, Hint |-> NoHint, RSKey |-> rsKey]
    IN  IF got.err \/ got.hint = NoHint \/ ~got.hasSolution
        THEN {noHintState}
        ELSE {IF targetNode # ""
              THEN [kind |-> "MultiObjectiveState", TargetNode |-> targetNode,
                    HasHint |-> TRUE, Hint |-> got.hint, RSKey |-> rsKey]
              ELSE noHintState :
                 targetNode \in selectBestNode(got.hint.Spec.Solutions[1], rsKey,
                                               filteredNodes, labelled)}

\* PreScore that reports the error of the lookup to the framework
PreScoreStatusOfErr(got) == IF got.err THEN "Error" ELSE "Success"

\* The status PreScore returns: nil, which the framework reads as Success
PreScoreStatus(got) == "Success"

PreScore(p) ==
    /\ MayStart(p)
    /\ \E failure \in Failures(p, LookupFailures) :
       LET got == getSchedulingHint(store, failure)
       IN  /\ \E cycleState \in PreScoreState(pods[p], got, pods[p].Fits,
                                               controlPlane) :
                  cycle' = [cycle EXCEPT ![p] = cycleState]
           /\ calls' = [calls EXCEPT ![p].lookup = failure, ![p].err = got.err]
           /\ status' = [status EXCEPT ![p].PreScore = PreScoreStatus(got),
                                         ![p].writes = @ + 1]
    /\ pc' = [pc EXCEPT ![p] = "scoring"]
    /\ UNCHANGED <<store, plan0, now, controlPlane, faulty, serial, pods, score,
                   rsv, commits>>
    /\ UNCHANGED <<input, output>>

\* The framework calls Score although PreScore has not written the state:
\* nothing is stored under stateKey, or a value of another type is
ScoreWithoutPreScore(p) ==
    /\ MayStart(p)
    /\ \E data \in {NoState, ForeignState} :
          cycle' = [cycle EXCEPT ![p] = data]
    /\ pc' = [pc EXCEPT ![p] = "scoring"]
    /\ UNCHANGED <<store, plan0, now, controlPlane, faulty, serial, pods, score,
                   rsv, commits, calls, status>>
    /\ UNCHANGED <<input, output>>

----------------------------------------------------------------------------
\* Score and tryConsumeSlot

\* Before the cycle of a pod: no API call was made for it, nothing returned
NoCalls == [lookup |-> "none", err |-> FALSE, gets |-> 0, updates |-> 0,
            found |-> FALSE, slots |-> 0]
NoStatus == [PreScore |-> "none", writes |-> 0,
             Score |-> [n \in Nodes |-> "none"]]

IdleCall == [phase |-> "idle", attempt |-> 0, fresh |-> NoHint, i |-> 0]

\* Score returns: the score is recorded, and the reservation call, if any, ends
Return(p, nodeName, value, call) ==
    /\ score' = [score EXCEPT ![p][nodeName] = value]
    /\ status' = [status EXCEPT ![p].Score[nodeName] = "Success"]
    /\ rsv' = [rsv EXCEPT ![p] = call]

\* Score that prefers the target node whether or not the slot was consumed
ScoreOfTarget(consumed) == MaxNodeScore

\* The value Score returns once tryConsumeSlot has returned `consumed`
ScoreOf(consumed) == IF consumed THEN MaxNodeScore ELSE MinNodeScore

\* tryConsumeSlot returns `consumed` to Score, which returns
ReturnConsumed(p, consumed) ==
    Return(p, cycle[p].TargetNode, ScoreOf(consumed),
           [phase |-> "returned", attempt |-> rsv[p].attempt, fresh |-> NoHint,
            i |-> 0])

\* The nodes Score is called for: the candidate nodes, and any node when
\* there is no candidate, as Score itself does not know the candidates
ScoredNodes(pod) == IF pod.Fits = {} THEN Nodes ELSE pod.Fits

\* A test that takes every node for the target node
IsTargetNodeAlways(cycleState, nodeName) == TRUE

\* nodeName == cycleState.TargetNode
IsTargetNode(cycleState, nodeName) == nodeName = cycleState.TargetNode

\* Score up to its first call of the store: every path but the reservation
\* returns at once
Score(p, nodeName) ==
    /\ pc[p] = "scoring"
    /\ nodeName \in ScoredNodes(pods[p])
    /\ score[p][nodeName] = NoScore
    /\ ~(rsv[p].phase \in {"get", "update"} /\ nodeName = cycle[p].TargetNode)
    /\ IF cycle[p].kind # "MultiObjectiveState" \/ ~cycle[p].HasHint
          \/ ~IsTargetNode(cycle[p], nodeName)
       THEN Return(p, nodeName, MinNodeScore, rsv[p])
       ELSE \E failure \in Failures(p, {"config", "clientset"}) :
               IF failure # "none"
               THEN Return(p, nodeName, ScoreOf(FALSE),
                           [phase |-> "returned", attempt |-> 0, fresh |-> NoHint,
                            i |-> 0])
               ELSE /\ rsv' = [rsv EXCEPT ![p] =
                                 [phase |-> "get", attempt |-> 1, fresh |-> NoHint,
                                  i |-> 0]]
                    /\ UNCHANGED <<score, status>>
    /\ UNCHANGED <<store, plan0, now, controlPlane, faulty, serial, pods, pc,
                   cycle, commits, calls>>
    /\ UNCHANGED <<input, output>>

\* A check that finds a slot whatever the fetched plan shows
SlotAvailableAlways(rsMovement, nodeName) == TRUE

\* The check made on the freshly fetched movement
SlotAvailable(rsMovement, nodeName) ==
    MapGet(rsMovement.AvailableSlots, nodeName) > 0

\* ConsumeSlot without the count of what was scheduled
ConsumeSlotUncounted(rsMovement, nodeName) ==
    [rsMovement EXCEPT
        !.AvailableSlots = MapPut(@, nodeName, MapGet(@, nodeName) - 1)]

\* ConsumeSlot that leaves the slot available
ConsumeSlotKept(rsMovement, nodeName) ==
    [rsMovement EXCEPT
        !.ScheduledCount = MapPut(@, nodeName, MapGet(@, nodeName) + 1)]

\* ConsumeSlot that takes the replica off the target as well
ConsumeSlotOffTarget(rsMovement, nodeName) ==
    [rsMovement EXCEPT
        !.TargetDistribution = MapPut(@, nodeName, MapGet(@, nodeName) - 1),
        !.AvailableSlots = MapPut(@, nodeName, MapGet(@, nodeName) - 1),
        !.ScheduledCount = MapPut(@, nodeName, MapGet(@, nodeName) + 1)]

\* The counters of a movement after a slot of nodeName is consumed
ConsumeSlot(rsMovement, nodeName) ==
    [rsMovement EXCEPT
        !.AvailableSlots = MapPut(@, nodeName, MapGet(@, nodeName) - 1),
        !.ScheduledCount = MapPut(@, nodeName, MapGet(@, nodeName) + 1)]

\* The loop is at its last attempt (ExhaustedLate: one attempt too late)
ExhaustedLate(attempt) == attempt = maxRetries + 1

\* The loop is at its last attempt
Exhausted(attempt) == attempt = maxRetries

\* A reservation that changes the counters of the hint PreScore stored
HintAfterConsumeShared(hint, consumed) == consumed

\* The hint of the cycle state after the counters of the fetched copy were
\* changed: the copy is another object, the hint of the state is only read
\* for its name
HintAfterConsume(hint, consumed) == hint

\* The record of the calls after one more Get: found tells whether it returned
\* a hint with a movement for the group, slots what that movement shows as
\* available on the node
Fetched(call, found, slots) ==
    [call EXCEPT !.gets = @ + 1, !.found = found, !.slots = slots]

\* One pass of the retry loop from the fetch to the point where the hint is
\* about to be written back; failed: the Get returned an error
FetchFresh(p) ==
    /\ rsv[p].phase = "get"
    /\ \E failure \in Failures(p, {"get"}) :
       LET nodeName == cycle[p].TargetNode
           rsKey == cycle[p].RSKey
           attempt == rsv[p].attempt
           freshHint == store[cycle[p].Hint.Name]
           i == FindMovement(freshHint.Spec.Solutions[1].ReplicaSetMovements,
                             rsKey, 1)
           rsMovement == freshHint.Spec.Solutions[1].ReplicaSetMovements[i]
           consumed == [freshHint EXCEPT
                           !.Spec.Solutions[1].ReplicaSetMovements[i] =
                               ConsumeSlot(rsMovement, nodeName)]
           missed == [calls EXCEPT ![p] = Fetched(@, FALSE, 0)]
       IN  IF failure # "none" \/ freshHint = NoHint
           THEN /\ calls' = missed
                /\ UNCHANGED cycle
                /\ IF Exhausted(attempt)
                   THEN ReturnConsumed(p, FALSE)
                   ELSE /\ rsv' = [rsv EXCEPT ![p].attempt = attempt + 1]
                        /\ UNCHANGED <<score, status>>
           ELSE IF Len(freshHint.Spec.Solutions) = 0
           THEN calls' = missed /\ ReturnConsumed(p, FALSE) /\ UNCHANGED cycle
           ELSE IF i = 0
           THEN calls' = missed /\ ReturnConsumed(p, FALSE) /\ UNCHANGED cycle
           ELSE /\ calls' = [calls EXCEPT ![p] =
                       Fetched(@, TRUE, MapGet(rsMovement.AvailableSlots, nodeName))]
                /\ IF SlotAvailable(rsMovement, nodeName)
                   THEN /\ rsv' = [rsv EXCEPT ![p] =
                            [phase |-> "update", attempt |-> attempt,
                             fresh |-> consumed, i |-> i]]
                        /\ cycle' = [cycle EXCEPT
                                        ![p].Hint = HintAfterConsume(@, consumed)]
                        /\ UNCHANGED <<score, status>>
                   ELSE ReturnConsumed(p, FALSE) /\ UNCHANGED cycle
    /\ UNCHANGED <<store, plan0, now, controlPlane, faulty, serial, pods, pc,
                   commits>>
    /\ UNCHANGED <<input, output>>

\* A store that accepts a stale update
UpdateAcceptedStale(st, obj) == st[obj.Name] # NoHint

\* The store accepts an update only of the version it holds
UpdateAccepted(st, obj) ==
    /\ st[obj.Name] # NoHint
    /\ st[obj.Name].ResourceVersion = obj.ResourceVersion

\* A store that keeps what it was sent although it answers with an error
StoreAfterUpdateAnyway(st, obj, accepted) ==
    [st EXCEPT ![obj.Name] = [obj EXCEPT !.ResourceVersion = @ + 1]]

\* The store after an Update of obj: an accepted object replaces the stored
\* one under a new version, a refused one leaves the store as it is
StoreAfterUpdate(st, obj, accepted) ==
    IF accepted
    THEN [st EXCEPT ![obj.Name] = [obj EXCEPT !.ResourceVersion = @ + 1]]
    ELSE st

\* The Update call of the pass and what follows it. After an Update that
\* failed before the last attempt, the `continue` of the code is inside the
\* loop over the movements of the fetched top solution: that loop goes on
\* behind movement i of the same fetched copy, with the counters changed so
\* far; the loop over the attempts does not, and nothing is fetched again.
WriteBack(p) ==
    /\ rsv[p].phase = "update"
    /\ \E failure \in Failures(p, {"update"}) :
       LET freshHint == rsv[p].fresh
           attempt == rsv[p].attempt
           nodeName == cycle[p].TargetNode
           accepted == failure = "none" /\ UpdateAccepted(store, freshHint)
           movements == freshHint.Spec.Solutions[1].ReplicaSetMovements
           i == FindMovement(movements, cycle[p].RSKey, rsv[p].i + 1)
           consumed == [freshHint EXCEPT
                           !.Spec.Solutions[1].ReplicaSetMovements[i] =
                               ConsumeSlot(movements[i], nodeName)]
       IN  /\ store' = StoreAfterUpdate(store, freshHint, accepted)
           /\ calls' = [calls EXCEPT ![p].updates = @ + 1]
           /\ IF accepted
              THEN /\ commits' = [commits EXCEPT ![p] = @ + 1]
                   /\ ReturnConsumed(p, TRUE)
              ELSE /\ IF Exhausted(attempt) \/ i = 0
                      THEN ReturnConsumed(p, FALSE)
                      ELSE IF SlotAvailable(movements[i], nodeName)
                      THEN /\ rsv' = [rsv EXCEPT ![p] =
                                 [phase |-> "update", attempt |-> attempt,
                                  fresh |-> consumed, i |-> i]]
                           /\ UNCHANGED <<score, status>>
                      ELSE ReturnConsumed(p, FALSE)
                   /\ UNCHANGED commits
    /\ UNCHANGED <<plan0, now, controlPlane, faulty, serial, pods, pc, cycle>>
    /\ UNCHANGED <<input, output>>

Next ==
    \/ \E p \in Pods : PreScore(p)
    \/ \E p \in Pods : ScoreWithoutPreScore(p)
    \/ \E p \in Pods : \E nodeName \in Nodes : Score(p, nodeName)
    \/ \E p \in Pods : FetchFresh(p)
    \/ \E p \in Pods : WriteBack(p)

----------------------------------------------------------------------------
\* Initial states

RECURSIVE MapSum(_, _)
MapSum(m, keys) ==
    IF keys = {} THEN 0
    ELSE LET k == CHOOSE x \in keys : TRUE
         IN  m[k] + MapSum(m, keys \ {k})

\* Target distributions over the given nodes with at most maxSum replicas
TargetMaps(nodes, maxSum) ==
    UNION {{t \in [S -> 1..MaxTarget] : MapSum(t, S) <= maxSum} :
              S \in SUBSET nodes \ {{}}}

\* The available slots a plan with this target may show
AvailableMaps(target) ==
    {a \in [DOMAIN target -> 0..MaxTarget] : \A n \in DOMAIN a : a[n] <= target[n]}

\* The producer counts in scheduledCount what is no longer available; the
\* field is omitted from the object while it is empty
ScheduledOf(target, available) ==
    [n \in {x \in DOMAIN target : target[x] > available[x]} |->
        target[n] - available[n]]

Movement(name, target, available) ==
    [ReplicaSetName |-> name, Namespace |-> "default",
     TargetDistribution |-> target, AvailableSlots |-> available,
     ScheduledCount |-> ScheduledOf(target, available)]

Solution(rank, movements) == [Rank |-> rank, ReplicaSetMovements |-> movements]

Hint(fingerprint, stored, expiration, solutions) ==
    [Name |-> generateHintName(fingerprint), ResourceVersion |-> 1,
     Spec |-> [ClusterFingerprint |-> stored, ClusterNodes |-> <<"A", "B", "C">>,
               ExpirationTime |-> expiration, Solutions |-> solutions]]

StoreOf(hints) ==
    [name \in HintNames |->
        IF \E h \in hints : h.Name = name
        THEN CHOOSE h \in hints : h.Name = name
        ELSE NoHint]

\* No function is called on its own while pods are scheduled
NoCall == [fn |-> "none"]
NoPureCall == input = NoCall /\ output = NoCall

\* What does not depend on the run: nothing has been scored
InitCycles(podSet, kinds) ==
    /\ pods \in [podSet -> kinds]
    /\ pc = [p \in podSet |-> "pending"]
    /\ cycle = [p \in podSet |-> NoState]
    /\ score = [p \in podSet |-> [n \in Nodes |-> NoScore]]
    /\ rsv = [p \in podSet |-> IdleCall]
    /\ commits = [p \in podSet |-> 0]
    /\ calls = [p \in podSet |-> NoCalls]
    /\ status = [p \in podSet |-> NoStatus]
    /\ plan0 = store

\* The nodes that pass the filters for the pods that arrive together
Contended == {"A", "B"}

\* The target distributions of the contended movement: up to two replicas
ContendedTargets == TargetMaps(Contended, 1 + 1)

\* A lower-ranked solution, which the scorer does not consult
DecoySolution == Solution(2, <<Movement("web", [B |-> 1], [B |-> 1])>>)

\* Pods arriving together while a valid plan for the cluster is in the store:
\* the plan has a movement for web on the nodes the pods fit on, in any state
\* of consumption, and one for api. Pods are interchangeable: at most the
\* first is an api pod, and at most the first has API calls that fail.
Init ==
    /\ NoPureCall
    /\ now = 1
    /\ controlPlane = {}
    /\ faulty \in {{}, {1}}
    /\ serial = FALSE
    /\ \E target \in ContendedTargets :
       \E available \in AvailableMaps(target) :
          store = StoreOf({Hint("f1", "f1", now + 1,
                     <<Solution(1, <<Movement("web", target, available),
                                     Movement("api", [B |-> 1], [B |-> 1])>>),
                       DecoySolution>>)})
    /\ InitCycles(1..NumPods, {WebPod(Contended), ApiPod(Contended)})
    /\ \A p \in 2..NumPods : pods[p] = WebPod(Contended)

Spec == Init /\ [][Next]_vars

\* The movements a plan may hold for a group on these nodes: every state of
\* consumption of every target distribution
Movements(name, nodes) ==
    UNION {{Movement(name, target, available) :
                available \in AvailableMaps(target)} :
              target \in TargetMaps(nodes, MaxReplicas)}

\* One pod of any kind, fitting on any set of nodes, meets any store: no hint,
\* a hint for another fingerprint only, or a hint under the name of the
\* cluster's fingerprint that may be expired, may carry another fingerprint
\* and may have no solutions. Node C may be a control-plane node, whether or
\* not the plan has a target for it.
InitLookup ==
    /\ NoPureCall
    /\ now = 1
    /\ controlPlane \in {{}, {"C"}}
    /\ faulty = {}
    /\ serial = FALSE
    /\ \/ store = StoreOf({})
       \/ \E stored \in Fingerprints : \E expiration \in {now - 1, now + 1} :
             store = StoreOf({Hint("f1", stored, expiration, <<>>)})
       \/ \E name \in Fingerprints : \E stored \in Fingerprints :
          \E expiration \in {now - 1, now + 1} :
          \E movement \in Movements("web", Nodes) :
             /\ name = "f2" => (stored = "f2" /\ expiration = now + 1)
             /\ store = StoreOf({Hint(name, stored, expiration,
                                      <<Solution(1, <<movement>>), DecoySolution>>)})
    /\ \E fits \in SUBSET Nodes :
          InitCycles({1}, {WebPod(fits), BarePod(fits)})

SpecLookup == InitLookup /\ [][Next]_vars

\* Pods of web are scheduled one after another against a fresh plan for web;
\* every node passes the filters, and node C may be a control-plane node
InitSerial ==
    /\ NoPureCall
    /\ now = 1
    /\ controlPlane \in {{}, {"C"}}
    /\ faulty = {}
    /\ serial = TRUE
    /\ \E target \in TargetMaps(Nodes, MaxReplicas) :
          store = StoreOf({Hint("f1", "f1", now + 1,
                     <<Solution(1, <<Movement("web", target, target)>>)>>)})
    /\ InitCycles(1..NumSerialPods, {WebPod(Nodes)})

SpecSerial == InitSerial /\ [][Next]_vars

\* The state PreScore writes for a pod when the lookup meets no failure and
\* the plan leaves one choice of target
PreScored0(pod, st) ==
    CHOOSE cycleState \in PreScoreState(pod, getSchedulingHint(st, "none"),
                                        pod.Fits, {}) : TRUE

\* Pods of web and of api arrive together for node A, where the plan has a
\* slot for each of them in the movement of either group; every API call is
\* answered without error. The first pod is about to be scored, for the
\* others PreScore has returned.
InitRace ==
    /\ NoPureCall
    /\ now = 1
    /\ controlPlane = {}
    /\ faulty = {}
    /\ serial = FALSE
    /\ store = StoreOf({Hint("f1", "f1", now + 1,
                 <<Solution(1, <<Movement("web", [A |-> NumRacers], [A |-> NumRacers]),
                                 Movement("api", [A |-> NumRacers], [A |-> NumRacers])>>),
                   DecoySolution>>)})
    /\ plan0 = store
    /\ pods = [p \in 1..NumRacers |->
                  IF p <= 2 THEN WebPod({"A"}) ELSE ApiPod({"A"})]
    /\ pc = [p \in 1..NumRacers |-> IF p = 1 THEN "pending" ELSE "scoring"]
    /\ cycle = [p \in 1..NumRacers |->
                   IF p = 1 THEN NoState ELSE PreScored0(pods[p], store)]
    /\ score = [p \in 1..NumRacers |-> [n \in Nodes |-> NoScore]]
    /\ rsv = [p \in 1..NumRacers |-> IdleCall]
    /\ commits = [p \in 1..NumRacers |-> 0]
    /\ calls = [p \in 1..NumRacers |-> NoCalls]
    /\ status = [p \in 1..NumRacers |->
                    IF p = 1 THEN NoStatus
                    ELSE [NoStatus EXCEPT !.PreScore = "Success", !.writes = 1]]

SpecRace == InitRace /\ [][Next]_vars

\* Pods of web arrive together for node A, where the plan has slots left or
\* has no solution at all; the API calls made for the first pod may fail
InitRetry ==
    /\ NoPureCall
    /\ now = 1
    /\ controlPlane = {}
    /\ faulty = {1}
    /\ serial = FALSE
    /\ \/ \E available \in 1..MaxTarget :
             store = StoreOf({Hint("f1", "f1", now + 1,
                        <<Solution(1, <<Movement("web", [A |-> MaxTarget],
                                                 [A |-> available])>>)>>)})
       \/ store = StoreOf({Hint("f1", "f1", now + 1, <<>>)})
    /\ InitCycles(1..NumPods, {WebPod({"A"})})

\* A call of tryConsumeSlot that has begun goes on: the API server answers
\* every Get and every Update, with a result or with an error
Fairness ==
    \A p \in 1..NumPods : WF_vars(FetchFresh(p)) /\ WF_vars(WriteBack(p))

SpecRetry == InitRetry /\ [][Next]_vars /\ Fairness

\* A pod that no ReplicaSet owns, without owner or owned by a StatefulSet,
\* meets a plan for ReplicaSet web, with or without a movement for a
\* ReplicaSet of the pod's namespace whose name is "unknown"
InitOwner ==
    /\ NoPureCall
    /\ now = 1
    /\ controlPlane = {}
    /\ faulty = {}
    /\ serial = FALSE
    /\ \E web \in Movements("web", Contended) :
       \E movements \in {<<web>>,
                          <<web, Movement("unknown", [A |-> 1], [A |-> 1])>>} :
          store = StoreOf({Hint("f1", "f1", now + 1,
                                <<Solution(1, movements)>>)})
    /\ InitCycles({1}, {BarePod(Contended), StatefulPod(Contended)})

SpecOwner == InitOwner /\ [][Next]_vars

----------------------------------------------------------------------------
\* Functions called on their own

\* No pod is being scheduled
NoScheduling ==
    /\ now = 1
    /\ controlPlane = {}
    /\ faulty = {}
    /\ serial = FALSE
    /\ store = StoreOf({})
    /\ InitCycles({}, {})

\* The objectives a weight is configured for: cost, disruption and balance
Objectives == {"cost", "disruption", "balance"}

\* Configurations of the plugin: every objective has a weight, a multiple of
\* 1/WeightSteps between 0 and 1
PluginArgs == {[objectiveWeights |-> w] : w \in [Objectives -> 0..WeightSteps]}

\* The plugin and the error New returns: it reads nothing of args
New(args) == [fn |-> "New", plugin |-> TRUE, err |-> FALSE]

CallNew ==
    /\ input.fn = "New"
    /\ output = NoCall
    /\ output' = New(input.args)
    /\ UNCHANGED <<input, schedVars>>

InitNew ==
    /\ NoScheduling
    /\ \E args \in PluginArgs : input = [fn |-> "New", args |-> args]
    /\ output = NoCall

SpecNew == InitNew /\ [][CallNew]_vars

----------------------------------------------------------------------------
\* calculateClusterFingerprintFromReplicaSets. Strings are the sequences of
\* their characters.

\* The characters of the names, in the order of their bytes
Bytes ==
    <<"-", "/", "0", "1", "2", "3", "4", "5", "6", "7", "8", "9", "=",
      "a", "b", "c", "d", "e", "f", "g", "h", "i", "j", "k", "l", "m",
      "n", "o", "p", "q", "r", "s", "t", "u", "v", "w", "x", "y", "z">>

ByteOf(c) == CHOOSE i \in DOMAIN Bytes : Bytes[i] = c

\* s < t as sort.Strings compares them: byte by byte, a prefix first
RECURSIVE StringLess(_, _)
StringLess(s, t) ==
    IF t = <<>> THEN FALSE
    ELSE IF s = <<>> THEN TRUE
    ELSE IF Head(s) # Head(t) THEN ByteOf(Head(s)) < ByteOf(Head(t))
    ELSE StringLess(Tail(s), Tail(t))

\* The list with string x put in before the first element greater than it
RECURSIVE InsertSorted(_, _)
InsertSorted(x, sorted) ==
    IF sorted = <<>> THEN <<x>>
    ELSE IF StringLess(Head(sorted), x) \/ Head(sorted) = x
    THEN <<Head(sorted)>> \o InsertSorted(x, Tail(sorted))
    ELSE <<x>> \o sorted

\* A list of strings left in the order it was given
SortStringsNot(strings) == strings

\* sort.Strings: the strings in increasing order
RECURSIVE SortStrings(_)
SortStrings(strings) ==
    IF strings = <<>> THEN <<>>
    ELSE InsertSorted(Head(strings), SortStrings(Tail(strings)))

\* strings.Join
RECURSIVE Join(_, _)
Join(strings, sep) ==
    IF strings = <<>> THEN <<>>
    ELSE IF Len(strings) = 1 THEN strings[1]
    ELSE strings[1] \o sep \o Join(Tail(strings), sep)

\* %d of a number that is not negative
RECURSIVE Itoa(_)
Itoa(n) ==
    LET digit == <<Bytes[ByteOf("0") + (n % 10)]>>
    IN  IF n < 10 THEN digit ELSE Itoa(n \div 10) \o digit

kubeSystem == <<"k", "u", "b", "e", "-", "s", "y", "s", "t", "e", "m">>
kubePublic == <<"k", "u", "b", "e", "-", "p", "u", "b", "l", "i", "c">>
kubeNodeLease ==
    <<"k", "u", "b", "e", "-", "n", "o", "d", "e", "-", "l", "e", "a", "s", "e">>
localPathStorage ==
    <<"l", "o", "c", "a", "l", "-", "p", "a", "t", "h", "-",
      "s", "t", "o", "r", "a", "g", "e">>

systemNamespaces == <<kubeSystem, kubePublic, kubeNodeLease, localPathStorage>>

isSystemNamespace(namespace) ==
    \E i \in DOMAIN systemNamespaces : namespace = systemNamespaces[i]

controlPlaneLabel == "node-role.kubernetes.io/control-plane"

\* The names of the nodes without the control-plane label, in the order listed
RECURSIVE WorkerNodeNames(_)
WorkerNodeNames(nodes) ==
    IF nodes = <<>> THEN <<>>
    ELSE IF controlPlaneLabel \in Head(nodes).Labels
    THEN WorkerNodeNames(Tail(nodes))
    ELSE <<Head(nodes).Name>> \o WorkerNodeNames(Tail(nodes))

\* A ReplicaSet the loop skips: in a system namespace, or with no or zero
\* desired replicas (Replicas is a pointer: <<>> for nil, <<n>> for n)
Skipped(rs) ==
    \/ isSystemNamespace(rs.Namespace)
    \/ rs.Spec.Replicas = <<>>
    \/ rs.Spec.Replicas[1] = 0

\* <namespace>/<name>=<replicas> of the ReplicaSets not skipped, in the order
\* listed
RECURSIVE ReplicaSetSpecs(_)
ReplicaSetSpecs(replicaSets) ==
    IF replicaSets = <<>> THEN <<>>
    ELSE LET rs == Head(replicaSets)
             rsKey == rs.Namespace \o <<"/">> \o rs.Name
             rsSpec == rsKey \o <<"=">> \o Itoa(rs.Spec.Replicas[1])
         IN  IF Skipped(rs) THEN ReplicaSetSpecs(Tail(replicaSets))
             ELSE <<rsSpec>> \o ReplicaSetSpecs(Tail(replicaSets))

\* The first 16 hexadecimal digits of the SHA-256 of a text, kept as the text
\* it was computed from: equal texts have equal digests, and no two texts of
\* the model are taken to collide
Sha256Prefix(text) == [sha256 |-> text]

calculateClusterFingerprintFromReplicaSets(nodes, replicaSets) ==
    LET nodeNames == SortStrings(WorkerNodeNames(nodes))
        replicaSetSpecs == SortStrings(ReplicaSetSpecs(replicaSets))
        clusterSpec == <<"n", "o", "d", "e", "s", ":">>
                          \o Join(nodeNames, <<",">>)
                          \o <<"|", "r", "e", "p", "l", "i", "c", "a", "s", "e", "t", "s", ":">>
                          \o Join(replicaSetSpecs, <<";">>)
    IN  Sha256Prefix(clusterSpec)

\* The clusters listed: three worker nodes and a control-plane node, the
\* ReplicaSets web and api, and ReplicaSets the fingerprint leaves out
Node(name, labels) == [Name |-> name, Labels |-> labels]

NodePool ==
    {Node(name, {}) : name \in {<<"a">>, <<"a", "b">>, <<"b">>}}
        \cup {Node(<<"m">>, {controlPlaneLabel})}

ReplicaSet(namespace, name, replicas) ==
    [Namespace |-> namespace, Name |-> name, Spec |-> [Replicas |-> replicas]]

defaultNamespace == <<"d", "e", "f", "a", "u", "l", "t">>

ReplicaSetPool ==
    {ReplicaSet(defaultNamespace, <<"w", "e", "b">>, <<1>>),
     ReplicaSet(defaultNamespace, <<"w", "e", "b">>, <<10>>),
     ReplicaSet(defaultNamespace, <<"a", "p", "i">>, <<2>>),
     ReplicaSet(kubeSystem, <<"d", "n", "s">>, <<2>>),
     ReplicaSet(defaultNamespace, <<"o", "l", "d">>, <<0>>),
     ReplicaSet(defaultNamespace, <<"n", "e", "w">>, <<>>)}

\* What the API server may list: no two nodes of one name, no two ReplicaSets
\* of one namespace and name
NodeLists ==
    UNION {{l \in [1..k -> NodePool] :
               \A i, j \in 1..k : i # j => l[i].Name # l[j].Name} :
              k \in 0..MaxNodesListed}

ReplicaSetLists ==
    UNION {{l \in [1..k -> ReplicaSetPool] :
               \A i, j \in 1..k :
                   i # j => <<l[i].Namespace, l[i].Name>>
                               # <<l[j].Namespace, l[j].Name>>} :
              k \in 0..MaxReplicaSetsListed}

\* The list with the elements at i and i + 1 exchanged
Swap(list, i) ==
    [k \in DOMAIN list |->
        IF k = i THEN list[i + 1] ELSE IF k = i + 1 THEN list[i] ELSE list[k]]

\* The list without its element at i
Remove(list, i) ==
    [k \in 1..(Len(list) - 1) |-> IF k < i THEN list[k] ELSE list[k + 1]]

\* What the claim calls a group that does not count: one in a system
\* namespace, or with no or zero desired replicas
Ignored(rs) ==
    \/ rs.Namespace \in {kubeSystem, kubePublic, kubeNodeLease, localPathStorage}
    \/ rs.Spec.Replicas \in {<<>>, <<0>>}

\* What two listings must share to be of the same cluster: the names of the
\* worker nodes and the namespace, name and replicas of the groups that count
ClusterOf(nodes, replicaSets) ==
    [workers |-> {nodes[i].Name : i \in {k \in DOMAIN nodes :
                                            controlPlaneLabel \notin nodes[k].Labels}},
     groups |-> {<<replicaSets[i].Namespace, replicaSets[i].Name,
                   replicaSets[i].Spec.Replicas>> :
                     i \in {k \in DOMAIN replicaSets : ~Ignored(replicaSets[k])}}]

\* The scorer computes the fingerprint of the listing: for the first time, or
\* again after the listing has changed
CallFingerprint ==
    /\ input.fn = "fingerprint"
    /\ output = NoCall \/ input.stale
    /\ LET fingerprint == calculateClusterFingerprintFromReplicaSets(
                              input.nodes, input.replicaSets)
           cluster == ClusterOf(input.nodes, input.replicaSets)
       IN  output' = IF output = NoCall
                     THEN [fn |-> "fingerprint", again |-> FALSE,
                           first |-> fingerprint, firstCluster |-> cluster,
                           last |-> fingerprint, lastCluster |-> cluster]
                     ELSE [output EXCEPT !.again = TRUE, !.last = fingerprint,
                                         !.lastCluster = cluster]
    /\ input' = [input EXCEPT !.stale = FALSE]
    /\ UNCHANGED schedVars

\* The listing after a change of the given kind
Relisted(nodes, replicaSets, kind) ==
    [input EXCEPT !.nodes = nodes, !.replicaSets = replicaSets,
                  !.changes = @ \cup {kind}, !.stale = TRUE]

\* The API server returns the nodes or the ReplicaSets in another order
Reorder ==
    /\ output # NoCall /\ ~input.stale
    /\ \/ \E i \in 1..(Len(input.nodes) - 1) :
             input' = Relisted(Swap(input.nodes, i), input.replicaSets, "reordered")
       \/ \E i \in 1..(Len(input.replicaSets) - 1) :
             input' = Relisted(input.nodes, Swap(input.replicaSets, i), "reordered")
    /\ UNCHANGED <<output, schedVars>>

\* A ReplicaSet that does not count appears
InsertIgnored ==
    /\ output # NoCall /\ ~input.stale
    /\ \E rs \in ReplicaSetPool :
          /\ Ignored(rs)
          /\ Append(input.replicaSets, rs) \in ReplicaSetLists
          /\ input' = Relisted(input.nodes, Append(input.replicaSets, rs), "inserted")
    /\ UNCHANGED <<output, schedVars>>

\* A ReplicaSet that does not count disappears
RemoveIgnored ==
    /\ output # NoCall /\ ~input.stale
    /\ \E i \in DOMAIN input.replicaSets :
          /\ Ignored(input.replicaSets[i])
          /\ input' = Relisted(input.nodes, Remove(input.replicaSets, i), "removed")
    /\ UNCHANGED <<output, schedVars>>

NextFingerprint ==
    \/ CallFingerprint
    \/ Reorder
    \/ InsertIgnored
    \/ RemoveIgnored

InitFingerprint ==
    /\ NoScheduling
    /\ \E nodes \in NodeLists : \E replicaSets \in ReplicaSetLists :
          input = [fn |-> "fingerprint", nodes |-> nodes,
                   replicaSets |-> replicaSets, changes |-> {}, stale |-> FALSE]
    /\ output = NoCall

SpecFingerprint == InitFingerprint /\ [][NextFingerprint]_vars

\* A control-plane node joins the cluster
InsertControlPlane ==
    /\ output # NoCall /\ ~input.stale
    /\ \E node \in NodePool :
          /\ controlPlaneLabel \in node.Labels
          /\ Append(input.nodes, node) \in NodeLists
          /\ input' = Relisted(Append(input.nodes, node), input.replicaSets,
                               "control-plane inserted")
    /\ UNCHANGED <<output, schedVars>>

\* A control-plane node leaves the cluster
RemoveControlPlane ==
    /\ output # NoCall /\ ~input.stale
    /\ \E i \in DOMAIN input.nodes :
          /\ controlPlaneLabel \in input.nodes[i].Labels
          /\ input' = Relisted(Remove(input.nodes, i), input.replicaSets,
                               "control-plane removed")
    /\ UNCHANGED <<output, schedVars>>

\* The listing of getSchedulingHint and its fingerprint come before the
\* lookup of PreScore: the cluster gains and loses control-plane nodes
\* between the listings, then the pod is scored
NextControlPlane ==
    \/ /\ \A p \in Pods : pc[p] = "pending"
       /\ \/ CallFingerprint
          \/ InsertControlPlane
          \/ RemoveControlPlane
    \/ Next

\* A pod of ReplicaSet web for which every node is a candidate, in a cluster
\* where node C, or B and C, carry the control-plane label, meets a plan
\* with the largest target on C, whatever slots are left
InitControlPlane ==
    /\ now = 1
    /\ controlPlane \in {{"C"}, {"B", "C"}}
    /\ faulty = {}
    /\ serial = FALSE
    /\ \E available \in AvailableMaps([A |-> 1, B |-> 1, C |-> MaxTarget]) :
          store = StoreOf({Hint("f1", "f1", now + 1,
                     <<Solution(1, <<Movement("web",
                                              [A |-> 1, B |-> 1, C |-> MaxTarget],
                                              available)>>)>>)})
    /\ InitCycles({1}, {WebPod(Nodes)})
    /\ \E nodes \in NodeLists :
          input = [fn |-> "fingerprint", nodes |-> nodes,
                   replicaSets |-> <<ReplicaSet(defaultNamespace,
                                                <<"w", "e", "b">>, <<1>>)>>,
                   changes |-> {}, stale |-> FALSE]
    /\ output = NoCall

SpecControlPlane == InitControlPlane /\ [][NextControlPlane]_vars

----------------------------------------------------------------------------
\* NSGA-II

\* float64 values: a finite number num/den in lowest terms, +Inf, or NaN
RECURSIVE Gcd(_, _)
Gcd(a, b) == IF b = 0 THEN a ELSE Gcd(b, a % b)

Abs(n) == IF n < 0 THEN -n ELSE n

Ratio(num, den) ==
    LET g == Gcd(Abs(num), Abs(den))
        s == IF den < 0 THEN -1 ELSE 1
    IN  [kind |-> "num", num |-> s * (num \div g), den |-> s * (den \div g)]

Float(n) == Ratio(n, 1)
NaN == [kind |-> "nan", num |-> 0, den |-> 1]
Inf == [kind |-> "inf", num |-> 1, den |-> 1]

\* x < y: false as soon as one of the two is NaN
FloatLess(x, y) ==
    /\ x.kind # "nan" /\ y.kind # "nan"
    /\ x.kind = "num"
    /\ y.kind = "inf" \/ x.num * y.den < y.num * x.den

\* x + y
FloatAdd(x, y) ==
    IF x.kind = "nan" \/ y.kind = "nan" THEN NaN
    ELSE IF x.kind = "inf" \/ y.kind = "inf" THEN Inf
    ELSE Ratio(x.num * y.den + y.num * x.den, x.den * y.den)

\* x - y of two values that are finite or NaN
FloatSub(x, y) ==
    IF x.kind = "nan" \/ y.kind = "nan" THEN NaN
    ELSE Ratio(x.num * y.den - y.num * x.den, x.den * y.den)

\* x / y of two values that are finite or NaN, y not 0
FloatDiv(x, y) ==
    IF x.kind = "nan" \/ y.kind = "nan" THEN NaN
    ELSE Ratio(x.num * y.den, x.den * y.num)

\* A solution in the population with its value in the objective space
NewNSGAIISolution(sol, val) ==
    [Solution |-> sol, Value |-> val, Rank |-> 0, Distance |-> Float(0)]

\* a dominates b: nowhere worse and somewhere better
Dominates(a, b) ==
    /\ \A i \in 1..Len(a.Value) : ~FloatLess(b.Value[i], a.Value[i])
    /\ \E i \in 1..Len(a.Value) : FloatLess(a.Value[i], b.Value[i])

\* The given indices in ascending order, the order the loops find them in
RECURSIVE Ascending(_)
Ascending(indices) ==
    IF indices = {} THEN <<>>
    ELSE LET least == CHOOSE i \in indices : \A j \in indices : i <= j
         IN  <<least>> \o Ascending(indices \ {least})

\* dominated[i]: the individuals i dominates, in the order they were appended
DominatedBy(population, i) ==
    Ascending({j \in DOMAIN population :
                  i # j /\ Dominates(population[i], population[j])})

\* domCount[i]: the number of individuals that dominate i
DomCount(population, i) ==
    Cardinality({j \in DOMAIN population :
                    /\ i # j
                    /\ ~Dominates(population[i], population[j])
                    /\ Dominates(population[j], population[i])})

\* One pass over the individuals dominated by the current front: each has its
\* count decremented and joins the next front when the count reaches 0
RECURSIVE Release(_, _, _)
Release(todo, domCount, nextFront) ==
    IF todo = <<>> THEN [domCount |-> domCount, nextFront |-> nextFront]
    ELSE LET dominatedIdx == Head(todo)
             count == [domCount EXCEPT ![dominatedIdx] = @ - 1]
         IN  Release(Tail(todo), count,
                     IF count[dominatedIdx] = 0
                     THEN Append(nextFront, dominatedIdx) ELSE nextFront)

\* The concatenation of the lists
RECURSIVE Flatten(_)
Flatten(lists) ==
    IF lists = <<>> THEN <<>> ELSE Head(lists) \o Flatten(Tail(lists))

\* The fronts after the current one, as lists of indices, and the ranks: an
\* individual gets rank frontIndex + 1 when it joins the next front
RECURSIVE SubsequentFronts(_, _, _, _, _)
SubsequentFronts(population, currentFrontIndices, domCount, sorted, frontIndex) ==
    IF currentFrontIndices = <<>> THEN sorted
    ELSE LET next == Release(
                         Flatten([k \in DOMAIN currentFrontIndices |->
                                     DominatedBy(population, currentFrontIndices[k])]),
                         domCount, <<>>)
             joined == {next.nextFront[k] : k \in DOMAIN next.nextFront}
         IN  SubsequentFronts(
                 population, next.nextFront, next.domCount,
                 [fronts |-> IF next.nextFront # <<>>
                             THEN Append(sorted.fronts, next.nextFront)
                             ELSE sorted.fronts,
                  Rank |-> [i \in DOMAIN population |->
                               IF i \in joined THEN frontIndex + 1
                               ELSE sorted.Rank[i]]],
                 frontIndex + 1)

\* The fronts of the population as lists of indices, and the rank every
\* individual has afterwards: the one it came with if it is in no front
FrontIndices(population) ==
    LET domCount == [i \in DOMAIN population |-> DomCount(population, i)]
        first == Ascending({i \in DOMAIN population : domCount[i] = 0})
    IN  SubsequentFronts(population, first, domCount,
                         [fronts |-> <<first>>,
                          Rank |-> [i \in DOMAIN population |->
                                       IF domCount[i] = 0 THEN 0
                                       ELSE population[i].Rank]],
                         0)

\* The fronts of the population, each individual with its rank
NonDominatedSort(population) ==
    LET sorted == FrontIndices(population)
    IN  [f \in DOMAIN sorted.fronts |->
            [k \in DOMAIN sorted.fronts[f] |->
                [population[sorted.fronts[f][k]] EXCEPT
                    !.Rank = sorted.Rank[sorted.fronts[f][k]]]]]

\* sort.Slice on a slice this short is an insertion sort: the element at i
\* sinks while it is less than the one before it
RECURSIVE Sink(_, _, _)
Sink(data, j, less) ==
    IF j > 1 /\ less[data[j], data[j - 1]]
    THEN Sink(Swap(data, j - 1), j - 1, less) ELSE data

RECURSIVE InsertionSort(_, _, _)
InsertionSort(data, i, less) ==
    IF i > Len(data) THEN data
    ELSE InsertionSort(Sink(data, i, less), i + 1, less)

SortSlice(data, less) == InsertionSort(data, 2, less)

\* The less functions of the two sorts: by objective m, the smallest value
\* first, and by crowding distance, the largest first
LessByValue(front, m) ==
    LET members == {front[i] : i \in DOMAIN front}
    IN  [a \in members, b \in members |-> FloatLess(a.Value[m], b.Value[m])]

\* The less function of a sort by distance with the smallest first
LessByDistanceAscending(front) ==
    LET members == {front[i] : i \in DOMAIN front}
    IN  [a \in members, b \in members |-> FloatLess(a.Distance, b.Distance)]

LessByDistance(front) ==
    LET members == {front[i] : i \in DOMAIN front}
    IN  [a \in members, b \in members |-> FloatLess(b.Distance, a.Distance)]

\* CrowdingDistanceOf without the division by the range
CrowdingDistanceOfUnscaled(front, m) ==
    LET sorted == SortSlice(front, LessByValue(front, m))
        last == Len(sorted)
    IN  [i \in DOMAIN sorted |->
            IF i \in {1, last} THEN [sorted[i] EXCEPT !.Distance = Inf]
            ELSE [sorted[i] EXCEPT !.Distance =
                     FloatAdd(@, FloatSub(sorted[i + 1].Value[m],
                                          sorted[i - 1].Value[m]))]]

\* The front sorted by objective m, its two ends at +Inf and every other
\* member's distance increased by its neighbours' difference over the range
CrowdingDistanceOf(front, m) ==
    LET sorted == SortSlice(front, LessByValue(front, m))
        last == Len(sorted)
        ends == [i \in DOMAIN sorted |->
                    IF i \in {1, last} THEN [sorted[i] EXCEPT !.Distance = Inf]
                    ELSE sorted[i]]
        objectiveRange == FloatSub(sorted[last].Value[m], sorted[1].Value[m])
    IN  IF objectiveRange = Float(0) THEN ends
        ELSE [i \in DOMAIN ends |->
                 IF i \in {1, last} THEN ends[i]
                 ELSE [ends[i] EXCEPT !.Distance =
                          FloatAdd(@, FloatDiv(FloatSub(sorted[i + 1].Value[m],
                                                        sorted[i - 1].Value[m]),
                                               objectiveRange))]]

RECURSIVE CrowdingDistanceFrom(_, _)
CrowdingDistanceFrom(front, m) ==
    IF m > Len(front[1].Value) THEN front
    ELSE CrowdingDistanceFrom(CrowdingDistanceOf(front, m), m + 1)

\* The front as CrowdingDistance leaves it: reordered, with the distances set
CrowdingDistance(front) ==
    IF Len(front) <= 2
    THEN [i \in DOMAIN front |-> [front[i] EXCEPT !.Distance = Inf]]
    ELSE CrowdingDistanceFrom(
             [i \in DOMAIN front |-> [front[i] EXCEPT !.Distance = Float(0)]], 1)

\* A tournament the first of the two always wins
TournamentFirst(population, i, j) == population[i]

\* The winner of a tournament between the individuals at i and j
Tournament(population, i, j) ==
    LET best == population[i]
        contestant == population[j]
    IN  IF \/ contestant.Rank < best.Rank
           \/ /\ contestant.Rank = best.Rank
              /\ FloatLess(best.Distance, contestant.Distance)
        THEN contestant ELSE best

\* The individuals TournamentSelect can return, for the two indices it draws
TournamentSelect(population) ==
    {Tournament(population, i, j) : i, j \in DOMAIN population}

\* Whole fronts join the population while they fit
RECURSIVE WholeFronts(_, _, _, _)
WholeFronts(population, fronts, frontIndex, PopSize) ==
    IF Len(population) + Len(fronts[frontIndex]) <= PopSize
    THEN LET grown == population \o CrowdingDistance(fronts[frontIndex])
         IN  IF frontIndex + 1 > Len(fronts)
             THEN [population |-> grown, frontIndex |-> frontIndex + 1]
             ELSE WholeFronts(grown, fronts, frontIndex + 1, PopSize)
    ELSE [population |-> population, frontIndex |-> frontIndex]

\* The population of the next generation: whole fronts, then the most
\* distant members of the first front that does not fit
Survivors(combined, PopSize) ==
    LET fronts == NonDominatedSort(combined)
        whole == WholeFronts(<<>>, fronts, 1, PopSize)
        population == whole.population
        frontIndex == whole.frontIndex
    IN  IF Len(population) < PopSize /\ frontIndex <= Len(fronts)
        THEN LET front == CrowdingDistance(fronts[frontIndex])
             IN  population \o SubSeq(SortSlice(front, LessByDistance(front)),
                                      1, PopSize - Len(population))
        ELSE population

\* The problem Run is given: its solutions, the constraint they must satisfy
\* and the values of its two objective functions, which divide and so yield
\* NaN where they divide 0 by 0
Feasible == {"s1", "s2", "s3", "s4", "s5", "s6"}
Solutions == Feasible \cup {"s0"}

ObjectiveFuncs(sol) ==
    CASE sol = "s1" -> <<Float(0), Float(2)>>
      [] sol = "s2" -> <<Float(1), Float(1)>>
      [] sol = "s3" -> <<Float(2), Float(0)>>
      [] sol = "s4" -> <<Float(2), Float(2)>>
      [] sol = "s5" -> <<Float(1), NaN>>
      [] sol = "s6" -> <<NaN, Float(1)>>

\* The value of the solution, or an error when it violates a constraint
Evaluate(individual) ==
    IF individual \notin Feasible THEN [err |-> TRUE]
    ELSE [err |-> FALSE, val |-> ObjectiveFuncs(individual)]

\* Run is at the given place
RunAt(place) == input.fn = "Run" /\ output # NoCall /\ output.pc = place

\* Run initializes and evaluates the population; it ends the process when a
\* solution of the initial population cannot be evaluated
Initialize ==
    /\ input.fn = "Run"
    /\ output = NoCall
    /\ \E initPop \in [1..input.PopSize -> Solutions] :
          output' =
              IF \E i \in DOMAIN initPop : Evaluate(initPop[i]).err
              THEN [fn |-> "Run", pc |-> "fatal", gen |-> 0,
                    population |-> <<>>, offspring |-> <<>>]
              ELSE [fn |-> "Run", pc |-> "generation", gen |-> 0,
                    population |-> [i \in DOMAIN initPop |->
                        NewNSGAIISolution(initPop[i], Evaluate(initPop[i]).val)],
                    offspring |-> <<>>]
    /\ UNCHANGED <<input, schedVars>>

\* What one slot of the offspring can hold: a child that crossover and
\* mutation made and that could be evaluated, or else a clone of the parent
\* the tournament selected, with the parent's value
Offspring(population) ==
    {NewNSGAIISolution(child, Evaluate(child).val) : child \in Feasible}
        \cup {NewNSGAIISolution(parent.Solution, parent.Value) :
                 parent \in TournamentSelect(population)}

\* One round of the offspring loop: two parents are selected and give two
\* children, the second of which is dropped when the offspring is full; a
\* tournament in an empty population panics
GenerateOffspring ==
    /\ RunAt("generation")
    /\ output.gen < input.NumGenerations
    /\ Len(output.offspring) < input.PopSize
    /\ IF output.population = <<>>
       THEN output' = [output EXCEPT !.pc = "panic"]
       ELSE \E child1, child2 \in Offspring(output.population) :
               output' = [output EXCEPT !.offspring =
                             IF Len(@) + 2 > input.PopSize
                             THEN Append(@, child1)
                             ELSE @ \o <<child1, child2>>]
    /\ UNCHANGED <<input, schedVars>>

\* The end of a generation: parents and offspring are combined and sorted
\* into fronts, and the survivors are the next population
SelectSurvivors ==
    /\ RunAt("generation")
    /\ output.gen < input.NumGenerations
    /\ Len(output.offspring) = input.PopSize
    /\ output' = [output EXCEPT
                     !.population = Survivors(output.population \o output.offspring,
                                              input.PopSize),
                     !.offspring = <<>>,
                     !.gen = @ + 1]
    /\ UNCHANGED <<input, schedVars>>

\* Run returns the population after the last generation
ReturnPopulation ==
    /\ RunAt("generation")
    /\ output.gen = input.NumGenerations
    /\ output' = [output EXCEPT !.pc = "returned"]
    /\ UNCHANGED <<input, schedVars>>

NextRun ==
    \/ Initialize
    \/ GenerateOffspring
    \/ SelectSurvivors
    \/ ReturnPopulation

InitRun ==
    /\ NoScheduling
    /\ \E PopSize \in 0..MaxPopSize : \E NumGenerations \in 0..MaxGenerations :
          input = [fn |-> "Run", PopSize |-> PopSize,
                   NumGenerations |-> NumGenerations]
    /\ output = NoCall

SpecRun == InitRun /\ [][NextRun]_vars

----------------------------------------------------------------------------
\* The operators of NSGA-II, each called on its own

\* The populations of at most n evaluated individuals, ranks and distances as
\* NewNSGAIISolution sets them
Populations(n) ==
    UNION {[1..len -> {NewNSGAIISolution(sol, ObjectiveFuncs(sol)) :
                          sol \in Feasible}] : len \in 0..n}

CallNonDominatedSort ==
    /\ input.fn = "NonDominatedSort"
    /\ output = NoCall
    /\ output' = [fn |-> "NonDominatedSort",
                  sorted |-> FrontIndices(input.population),
                  fronts |-> NonDominatedSort(input.population)]
    /\ UNCHANGED <<input, schedVars>>

\* The survivor selection of a generation: the combined population of parents
\* and offspring is sorted into fronts and the next population selected
CallSurvivors ==
    /\ input.fn = "Survivors"
    /\ output = NoCall
    /\ output' = [fn |-> "Survivors",
                  population |-> Survivors(input.combined, input.PopSize)]
    /\ UNCHANGED <<input, schedVars>>

\* The lists of individuals none of which dominates another
Fronts(n) ==
    {front \in Populations(n) :
        \A i, j \in DOMAIN front : ~Dominates(front[i], front[j])}

CallCrowdingDistance ==
    /\ input.fn = "CrowdingDistance"
    /\ output = NoCall
    /\ output' = [fn |-> "CrowdingDistance",
                  front |-> CrowdingDistance(input.front)]
    /\ UNCHANGED <<input, schedVars>>

\* The populations of at most n individuals of one value that a sort has
\* ranked and whose distances were computed
RankedPopulations(n) ==
    UNION {[1..len -> {[NewNSGAIISolution("s2", ObjectiveFuncs("s2")) EXCEPT
                           !.Rank = rank, !.Distance = distance] :
                          rank \in 0..1, distance \in {Float(0), Inf, NaN}}] :
              len \in 0..n}

\* TournamentSelect draws two indices and returns the winner; rand.Intn
\* panics when the population is empty
CallTournamentSelect ==
    /\ input.fn = "TournamentSelect"
    /\ output = NoCall
    /\ IF input.population = <<>>
       THEN output' = [fn |-> "TournamentSelect", panicked |-> TRUE]
       ELSE \E i, j \in DOMAIN input.population :
               output' = [fn |-> "TournamentSelect", panicked |-> FALSE,
                          best |-> i, contestant |-> j,
                          selected |-> Tournament(input.population, i, j)]
    /\ UNCHANGED <<input, schedVars>>

NextOperators ==
    \/ CallNonDominatedSort
    \/ CallSurvivors
    \/ CallCrowdingDistance
    \/ CallTournamentSelect

InitOperators ==
    /\ NoScheduling
    /\ \/ \E population \in Populations(MaxIndividuals) :
             input = [fn |-> "NonDominatedSort", population |-> population]
       \/ \E combined \in Populations(MaxIndividuals) :
             /\ Len(combined) % 2 = 0
             /\ input = [fn |-> "Survivors", combined |-> combined,
                         PopSize |-> Len(combined) \div 2]
       \/ \E front \in Fronts(MaxIndividuals) :
             input = [fn |-> "CrowdingDistance", front |-> front]
       \/ \E population \in RankedPopulations(MaxIndividuals) :
             input = [fn |-> "TournamentSelect", population |-> population]
    /\ output = NoCall

SpecOperators == InitOperators /\ [][NextOperators]_vars

----------------------------------------------------------------------------
\* The scheduling problem: binary solutions, one bit per candidate node

\* A clone without the bits of the original
BinarySolutionCloneZeroed(bits) == [i \in DOMAIN bits |-> FALSE]

\* BinarySolution.Clone: a copy of the bits
BinarySolutionClone(bits) == [i \in DOMAIN bits |-> bits[i]]

\* A crossover that assigns one after the other instead of exchanging: the
\* first child takes the bits of the second from `point` on, and the second
\* takes them back
BinarySolutionCrossoverCopied(sol, other, crossed, point) ==
    LET child1 == BinarySolutionClone(sol)
        child2 == BinarySolutionClone(other)
    IN  IF crossed
        THEN [child1 |-> [i \in DOMAIN child1 |->
                             IF i - 1 >= point THEN child2[i] ELSE child1[i]],
              child2 |-> child2]
        ELSE [child1 |-> child1, child2 |-> child2]

\* BinarySolution.Crossover: clones of the two, with the bits from `point` on
\* (counted from 0) exchanged when the crossover takes place
BinarySolutionCrossover(sol, other, crossed, point) ==
    LET child1 == BinarySolutionClone(sol)
        child2 == BinarySolutionClone(other)
    IN  IF crossed
        THEN [child1 |-> [i \in DOMAIN child1 |->
                             IF i - 1 >= point THEN child2[i] ELSE child1[i]],
              child2 |-> [i \in DOMAIN child2 |->
                             IF i - 1 >= point THEN child1[i] ELSE child2[i]]]
        ELSE [child1 |-> child1, child2 |-> child2]

\* BinarySolution.Mutate: every bit is flipped or not
BinarySolutionMutate(bits) ==
    {[i \in DOMAIN bits |-> IF i \in flipped THEN ~bits[i] ELSE bits[i]] :
        flipped \in SUBSET DOMAIN bits}

\* The constraint of the problem: exactly one bit is set
Constraints(bits) == Cardinality({i \in DOMAIN bits : bits[i]}) = 1

\* SchedulingProblem.Initialize: every solution has one bit set, at any index
SchedulingInitialize(popSize) ==
    [1..popSize -> {[i \in 1..NumCandidates |-> i = idx] :
                       idx \in 1..NumCandidates}]

\* f1 and f2 of the node of the first set bit, 0 without one: the power and
\* the spreading score of node k are written k - 1 and NumCandidates - k
SchedulingObjectiveFuncs(bits) ==
    LET set == {i \in DOMAIN bits : bits[i]}
        first == CHOOSE i \in set : \A j \in set : i <= j
    IN  IF set = {} THEN <<Float(0), Float(0)>>
        ELSE <<Float(first - 1), Float(NumCandidates - first)>>

\* NSGAII.Evaluate on the scheduling problem
SchedulingEvaluate(bits) ==
    IF ~Constraints(bits) THEN [err |-> TRUE]
    ELSE [err |-> FALSE, val |-> SchedulingObjectiveFuncs(bits)]

\* Run on the scheduling problem is at the given place
SchedulingRunAt(place) ==
    input.fn = "RunScheduling" /\ output # NoCall /\ output.pc = place

SchedulingRunInitialize ==
    /\ input.fn = "RunScheduling"
    /\ output = NoCall
    /\ \E initPop \in SchedulingInitialize(input.PopSize) :
          output' =
              IF \E i \in DOMAIN initPop : SchedulingEvaluate(initPop[i]).err
              THEN [fn |-> "RunScheduling", pc |-> "fatal", gen |-> 0,
                    population |-> <<>>, offspring |-> <<>>, cloned |-> FALSE]
              ELSE [fn |-> "RunScheduling", pc |-> "generation", gen |-> 0,
                    population |-> [i \in DOMAIN initPop |->
                        NewNSGAIISolution(initPop[i],
                                          SchedulingEvaluate(initPop[i]).val)],
                    offspring |-> <<>>, cloned |-> FALSE]
    /\ UNCHANGED <<input, schedVars>>

\* The individual that joins the offspring for a child: the child with its
\* value, or a clone of the parent with the parent's value when the child
\* violates the constraint
OffspringOf(child, parent) ==
    IF SchedulingEvaluate(child).err
    THEN NewNSGAIISolution(BinarySolutionClone(parent.Solution), parent.Value)
    ELSE NewNSGAIISolution(child, SchedulingEvaluate(child).val)

\* One round of the offspring loop on the scheduling problem; cloned records
\* that a parent has stood in for a child
SchedulingGenerateOffspring ==
    /\ SchedulingRunAt("generation")
    /\ output.gen < input.NumGenerations
    /\ Len(output.offspring) < input.PopSize
    /\ \E parent1, parent2 \in TournamentSelect(output.population) :
       \E crossed \in BOOLEAN :
       \E point \in 0..(NumCandidates - 1) :
       LET children == BinarySolutionCrossover(parent1.Solution, parent2.Solution,
                                               crossed, point)
       IN  \E child1 \in BinarySolutionMutate(children.child1) :
           \E child2 \in BinarySolutionMutate(children.child2) :
              LET alone == Len(output.offspring) + 2 > input.PopSize
              IN  output' = [output EXCEPT
                     !.offspring =
                         IF alone
                         THEN Append(@, OffspringOf(child1, parent1))
                         ELSE @ \o <<OffspringOf(child1, parent1),
                                     OffspringOf(child2, parent2)>>,
                     !.cloned = \/ @
                                \/ SchedulingEvaluate(child1).err
                                \/ ~alone /\ SchedulingEvaluate(child2).err]
    /\ UNCHANGED <<input, schedVars>>

SchedulingSelectSurvivors ==
    /\ SchedulingRunAt("generation")
    /\ output.gen < input.NumGenerations
    /\ Len(output.offspring) = input.PopSize
    /\ output' = [output EXCEPT
                     !.population = Survivors(output.population \o output.offspring,
                                              input.PopSize),
                     !.offspring = <<>>,
                     !.gen = @ + 1]
    /\ UNCHANGED <<input, schedVars>>

SchedulingReturnPopulation ==
    /\ SchedulingRunAt("generation")
    /\ output.gen = input.NumGenerations
    /\ output' = [output EXCEPT !.pc = "returned"]
    /\ UNCHANGED <<input, schedVars>>

NextSchedulingRun ==
    \/ SchedulingRunInitialize
    \/ SchedulingGenerateOffspring
    \/ SchedulingSelectSurvivors
    \/ SchedulingReturnPopulation

InitSchedulingRun ==
    /\ NoScheduling
    /\ \E PopSize \in 0..MaxPopSize : \E NumGenerations \in 0..MaxGenerations :
          input = [fn |-> "RunScheduling", PopSize |-> PopSize,
                   NumGenerations |-> NumGenerations]
    /\ output = NoCall

SpecSchedulingRun == InitSchedulingRun /\ [][NextSchedulingRun]_vars

\* Crossover and Mutate of binary solutions, each called on its own: the
\* sample is below the crossover rate or not, and rand.IntN(len) is any
\* index below the length
CallBinaryCrossover ==
    /\ input.fn = "BinaryCrossover"
    /\ output = NoCall
    /\ \E crossed \in BOOLEAN :
       \E point \in 0..(Len(input.s) - 1) :
          output' = [fn |-> "BinaryCrossover", crossed |-> crossed] @@
                    BinarySolutionCrossover(input.s, input.other, crossed, point)
    /\ UNCHANGED <<input, schedVars>>

CallBinaryMutate ==
    /\ input.fn = "BinaryMutate"
    /\ output = NoCall
    /\ \E mutated \in BinarySolutionMutate(input.s) :
          output' = [fn |-> "BinaryMutate", s |-> mutated]
    /\ UNCHANGED <<input, schedVars>>

NextBinary ==
    \/ CallBinaryCrossover
    \/ CallBinaryMutate

\* Two solutions of one length, as the solutions of one problem are
InitBinary ==
    /\ NoScheduling
    /\ \E len \in 1..MaxBits :
       \E s, other \in [1..len -> BOOLEAN] :
          \/ input = [fn |-> "BinaryCrossover", s |-> s, other |-> other]
          \/ input = [fn |-> "BinaryMutate", s |-> s]
    /\ output = NoCall

SpecBinary == InitBinary /\ [][NextBinary]_vars

----------------------------------------------------------------------------
\* Real-valued solutions

\* x * y of two finite values
FloatMul(x, y) == Ratio(x.num * y.num, x.den * y.den)

\* math.Max and math.Min: NaN as soon as one of the two is NaN
FloatMax(x, y) ==
    IF x.kind = "nan" \/ y.kind = "nan" THEN NaN
    ELSE IF FloatLess(x, y) THEN y ELSE x

FloatMin(x, y) ==
    IF x.kind = "nan" \/ y.kind = "nan" THEN NaN
    ELSE IF FloatLess(y, x) THEN y ELSE x

\* The values rand.Float64 returns, in [0, 1): those among them for which
\* the cube roots below are fractions
Samples == {Float(0), Ratio(1, 2), Ratio(15, 16), Ratio(125, 128)}

\* math.Pow(x, 1.0/3.0), where it is a fraction
Roots == {Float(0), Ratio(1, 2), Float(1), Ratio(5, 4), Float(2)}
Cube(c) == FloatMul(c, FloatMul(c, c))
HasCubeRoot(x) == \E c \in Roots : Cube(c) = x
CubeRoot(x) == CHOOSE c \in Roots : Cube(c) = x

CrossoverRate == Ratio(4, 5)
MutationRate == Ratio(1, 10)

RealSolution(variables, b) == [Variables |-> variables, Bounds |-> b]

\* Clone: a solution with as many variables, all of them 0, and the bounds
RealSolutionClone(sol) ==
    [Variables |-> [i \in DOMAIN sol.Variables |-> Float(0)],
     Bounds |-> sol.Bounds]

\* The bound checking of a variable left as computed
BoundCheckNone(b, x) == x

\* Bound checking: math.Max(L, math.Min(H, x))
BoundCheck(b, x) == FloatMax(b.L, FloatMin(b.H, x))

\* The argument of the cube root of beta, for the sample that chose the
\* branch and the sample of the formula
SpreadArgument(branch, u) ==
    IF ~FloatLess(Ratio(1, 2), branch)
    THEN FloatMul(Float(2), u)
    ELSE FloatDiv(Float(1), FloatMul(Float(2), FloatSub(Float(1), u)))

\* What the two samples of one index give: whether the first chose the
\* branch of <= 0.5, and beta as computed from the second
SpreadDraws ==
    {[low |-> ~FloatLess(Ratio(1, 2), s[1]),
      beta |-> CubeRoot(SpreadArgument(s[1], s[2]))] :
        s \in {t \in Samples \X Samples :
                  HasCubeRoot(SpreadArgument(t[1], t[2]))}}

\* The values beta can take
SpreadFactors == {draw.beta : draw \in SpreadDraws}

\* The variables of the two children before bound checking
Blend(a, b, beta) ==
    [child1 |-> FloatMul(Ratio(1, 2),
                    FloatAdd(FloatMul(FloatAdd(Float(1), beta), a),
                             FloatMul(FloatSub(Float(1), beta), b))),
     child2 |-> FloatMul(Ratio(1, 2),
                    FloatAdd(FloatMul(FloatSub(Float(1), beta), a),
                             FloatMul(FloatAdd(Float(1), beta), b)))]

\* SBX crossover of sol and other: when the sample is below the crossover
\* rate every variable is blended with its own beta and bound-checked
\* against the bounds of sol; otherwise the children copy the parents
RealSolutionCrossover(sol, other, crossed, betas) ==
    LET child1 == RealSolutionClone(sol)
        child2 == RealSolutionClone(other)
        raw == [i \in DOMAIN sol.Variables |->
                   Blend(sol.Variables[i], other.Variables[i], betas[i])]
    IN  IF crossed
        THEN [crossed |-> TRUE,
              raw |-> raw,
              child1 |-> [child1 EXCEPT !.Variables =
                  [i \in DOMAIN sol.Variables |->
                      BoundCheck(sol.Bounds[i], raw[i].child1)]],
              child2 |-> [child2 EXCEPT !.Variables =
                  [i \in DOMAIN sol.Variables |->
                      BoundCheck(sol.Bounds[i], raw[i].child2)]]]
        ELSE [crossed |-> FALSE,
              raw |-> <<>>,
              child1 |-> [child1 EXCEPT !.Variables = sol.Variables],
              child2 |-> [child2 EXCEPT !.Variables = other.Variables]]

\* The argument of the cube root of delta
PerturbationArgument(branch, u) ==
    IF ~FloatLess(Ratio(1, 2), branch)
    THEN FloatMul(Float(2), u)
    ELSE FloatMul(Float(2), FloatSub(Float(1), u))

\* delta for the two samples
Perturbation(branch, u) ==
    IF ~FloatLess(Ratio(1, 2), branch)
    THEN FloatSub(CubeRoot(PerturbationArgument(branch, u)), Float(1))
    ELSE FloatSub(Float(1), CubeRoot(PerturbationArgument(branch, u)))

\* The values delta can take
Perturbations ==
    {Perturbation(s[1], s[2]) :
        s \in {t \in Samples \X Samples :
                  HasCubeRoot(PerturbationArgument(t[1], t[2]))}}

\* The variable after its turn in Mutate: itself when the sample u is not
\* below the mutation rate, else moved by delta times the width of its
\* bounds and bound-checked
MutatedValue(b, x, u, delta) ==
    IF FloatLess(u, MutationRate)
    THEN BoundCheck(b, FloatAdd(x, FloatMul(delta, FloatSub(b.H, b.L))))
    ELSE x

MutatedValues(b, x) ==
    {MutatedValue(b, x, u, delta) : u \in Samples, delta \in Perturbations}

\* Polynomial mutation: the solutions Mutate can leave in place of sol
RealSolutionMutate(sol) ==
    {[sol EXCEPT !.Variables = variables] :
        variables \in {v \in [DOMAIN sol.Variables ->
                            UNION {MutatedValues(sol.Bounds[i], sol.Variables[i]) :
                                      i \in DOMAIN sol.Variables}] :
                    \A i \in DOMAIN sol.Variables :
                        v[i] \in MutatedValues(sol.Bounds[i], sol.Variables[i])}}

\* The bounds of a variable, those of ZDT1 among them, and the values of a
\* variable that lies within them
ZDT1Bounds == [L |-> Float(0), H |-> Float(1)]
BoundsPool == {ZDT1Bounds, [L |-> Float(1), H |-> Float(3)]}

Within(b) == {b.L, FloatMul(Ratio(1, 2), FloatAdd(b.L, b.H)), b.H}

SolutionsWithin(bounds) ==
    {RealSolution(variables, bounds) :
        variables \in {v \in [DOMAIN bounds -> UNION {Within(bounds[i]) : i \in DOMAIN bounds}] :
                    \A i \in DOMAIN bounds : v[i] \in Within(bounds[i])}}

\* The populations ZDT1 can start with: every variable is L + u * (H - L)
ZDT1Initialize(popSize, numVars) ==
    LET b == [j \in 1..numVars |-> ZDT1Bounds]
        drawn == {FloatAdd(ZDT1Bounds.L,
                           FloatMul(u, FloatSub(ZDT1Bounds.H, ZDT1Bounds.L))) :
                     u \in Samples}
    IN  [1..popSize -> {RealSolution(variables, b) : variables \in [1..numVars -> drawn]}]

CallInitialize ==
    /\ input.fn = "Initialize"
    /\ output = NoCall
    /\ \E population \in ZDT1Initialize(input.popSize, input.numVars) :
          output' = [fn |-> "Initialize", population |-> population]
    /\ UNCHANGED <<input, schedVars>>

\* Crossover of two parents, with the two samples of every variable
CallCrossover ==
    /\ input.fn = "Crossover"
    /\ output = NoCall
    /\ \E crossed \in {FloatLess(rate, CrossoverRate) : rate \in Samples} :
       \E draws \in IF crossed
                    THEN [DOMAIN input.sol.Variables -> SpreadDraws]
                    ELSE {<<>>} :
          LET betas == [i \in DOMAIN draws |-> draws[i].beta]
          IN  output' = [fn |-> "Crossover", draws |-> draws] @@
                        RealSolutionCrossover(input.sol, input.other, crossed, betas)
    /\ UNCHANGED <<input, schedVars>>

\* Mutate is called on a solution
CallMutate ==
    /\ input.fn = "Mutate"
    /\ output = NoCall
    /\ \E mutated \in RealSolutionMutate(input.sol) :
          output' = [fn |-> "Mutate", sol |-> mutated]
    /\ UNCHANGED <<input, schedVars>>

\* Clone is called on a solution. The slices are kept by their place in
\* memory: heap[sol] holds the variables of the original, heap[clone] those
\* of the slice Clone makes; the bounds of the clone are the slice header of
\* the original's bounds
CallClone ==
    /\ input.fn = "Clone"
    /\ output = NoCall
    /\ output' = [fn |-> "Clone", pc |-> "cloned",
                  heap |-> <<input.sol.Variables,
                             RealSolutionClone(input.sol).Variables>>,
                  sol |-> 1, clone |-> 2,
                  Bounds |-> RealSolutionClone(input.sol).Bounds]
    /\ UNCHANGED <<input, schedVars>>

\* The clone is changed afterwards, as Run does with Mutate
CallMutateClone ==
    /\ input.fn = "Clone"
    /\ output # NoCall
    /\ output.pc = "cloned"
    /\ \E mutated \in RealSolutionMutate(
                          RealSolution(output.heap[output.clone], output.Bounds)) :
          output' = [output EXCEPT !.pc = "mutated",
                                   !.heap[output.clone] = mutated.Variables]
    /\ UNCHANGED <<input, schedVars>>

NextReal ==
    \/ CallInitialize
    \/ CallCrossover
    \/ CallMutate
    \/ CallClone
    \/ CallMutateClone

InitReal ==
    /\ NoScheduling
    /\ \/ \E popSize \in 0..MaxPopSize : \E numVars \in 1..MaxVariables :
             input = [fn |-> "Initialize", popSize |-> popSize, numVars |-> numVars]
       \/ \E numVars \in 1..MaxVariables :
          \E bounds \in [1..numVars -> BoundsPool] :
          \E sol, other \in SolutionsWithin(bounds) :
             \/ input = [fn |-> "Crossover", sol |-> sol, other |-> other]
             \/ input = [fn |-> "Mutate", sol |-> sol]
             \/ input = [fn |-> "Clone", sol |-> sol]
    /\ output = NoCall

SpecReal == InitReal /\ [][NextReal]_vars

----------------------------------------------------------------------------
\* The offspring loop of Run with the solutions kept by their place in
\* memory: heap[a] holds the bits, or the variables, of the slice at a, and
\* an individual refers to its solution by that place

\* make: a new slice with the given content
HeapAlloc(heap, content) ==
    [heap |-> Append(heap, content), addr |-> Len(heap) + 1]

\* A Clone that returns the solution it was called on
HeapBinaryCloneShared(heap, sol) == [heap |-> heap, addr |-> sol]

\* BinarySolution.Clone: a new slice with a copy of the bits
HeapBinaryClone(heap, sol) == HeapAlloc(heap, BinarySolutionClone(heap[sol]))

\* The loop of Crossover from index i (counted from 1) on: the bits of the
\* two children at i are exchanged
RECURSIVE SwapBits(_, _, _, _)
SwapBits(heap, child1, child2, i) ==
    IF i > Len(heap[child1]) THEN heap
    ELSE SwapBits([heap EXCEPT ![child1][i] = heap[child2][i],
                               ![child2][i] = heap[child1][i]],
                  child1, child2, i + 1)

\* BinarySolution.Crossover on the solutions at s and o
HeapBinaryCrossover(heap, s, o, crossed, point) ==
    LET child1 == HeapBinaryClone(heap, s)
        child2 == HeapBinaryClone(child1.heap, o)
    IN  [heap |-> IF crossed
                  THEN SwapBits(child2.heap, child1.addr, child2.addr, point + 1)
                  ELSE child2.heap,
         child1 |-> child1.addr,
         child2 |-> child2.addr]

\* BinarySolution.Mutate on the solution at s: the bits at `flipped` are
\* negated in place
HeapBinaryMutate(heap, s, flipped) ==
    [heap EXCEPT ![s] = [i \in DOMAIN @ |-> IF i \in flipped THEN ~@[i] ELSE @[i]]]

\* offspring[i] for a child: the child with its value, or a clone of the
\* parent with the parent's value when Evaluate returns an error
HeapOffspringOf(heap, child, parent) ==
    IF SchedulingEvaluate(heap[child]).err
    THEN LET clone == HeapBinaryClone(heap, parent.Solution)
         IN  [heap |-> clone.heap,
              individual |-> NewNSGAIISolution(clone.addr, parent.Value)]
    ELSE [heap |-> heap,
          individual |-> NewNSGAIISolution(child,
                                           SchedulingEvaluate(heap[child]).val)]

\* What the solutions and values of the population are at this moment
Snapshot(heap, population) ==
    [i \in DOMAIN population |->
        [Solution |-> heap[population[i].Solution],
         Value |-> population[i].Value]]

\* The memory without the slices no individual refers to: the slice of the
\* k-th of the individuals moves to place k, and two individuals that refer
\* to one slice still do
Collected(heap, individuals) ==
    LET first(k) == CHOOSE j \in 1..k :
                        /\ individuals[j].Solution = individuals[k].Solution
                        /\ \A l \in 1..(j - 1) :
                               individuals[l].Solution # individuals[k].Solution
    IN  [heap |-> [k \in DOMAIN individuals |-> heap[individuals[k].Solution]],
         individuals |-> [k \in DOMAIN individuals |->
                             [individuals[k] EXCEPT !.Solution = first(k)]]]

HeapRunAt(place) ==
    input.fn = "RunOffspring" /\ output # NoCall /\ output.pc = place

\* Run up to the first generation; parents is what the population was when
\* the offspring loop began
HeapRunInitialize ==
    /\ input.fn = "RunOffspring"
    /\ output = NoCall
    /\ \E initPop \in SchedulingInitialize(input.PopSize) :
          LET population == [i \in DOMAIN initPop |->
                                NewNSGAIISolution(i, SchedulingEvaluate(initPop[i]).val)]
          IN  output' = [fn |-> "RunOffspring", pc |-> "generation", gen |-> 0,
                         heap |-> initPop, population |-> population,
                         offspring |-> <<>>, twice |-> FALSE,
                         parents |-> Snapshot(initPop, population)]
    /\ UNCHANGED <<input, schedVars>>

\* One round of the offspring loop: the parents are drawn, Crossover makes
\* the children, Mutate changes each of them, and each is evaluated; every
\* intermediate value is bound once it is computed. twice records that a
\* round of this loop drew one parent for both children
HeapGenerateOffspring ==
    /\ HeapRunAt("generation")
    /\ output.gen < input.NumGenerations
    /\ Len(output.offspring) < input.PopSize
    /\ \E parent1, parent2 \in TournamentSelect(output.population) :
       \E crossed \in BOOLEAN :
       \E point \in IF crossed THEN 0..(NumCandidates - 1) ELSE {0} :
       \E crossover \in {HeapBinaryCrossover(output.heap, parent1.Solution,
                                            parent2.Solution, crossed, point)} :
       \E flipped1, flipped2 \in SUBSET (1..NumCandidates) :
          \E mutated \in {HeapBinaryMutate(
                             HeapBinaryMutate(crossover.heap, crossover.child1,
                                              flipped1),
                             crossover.child2, flipped2)} :
          \E first \in {HeapOffspringOf(mutated, crossover.child1, parent1)} :
          \E second \in {HeapOffspringOf(first.heap, crossover.child2, parent2)} :
          \E alone \in {Len(output.offspring) + 2 > input.PopSize} :
          \E individuals \in {IF alone
                               THEN output.population \o
                                        Append(output.offspring, first.individual)
                               ELSE output.population \o output.offspring \o
                                        <<first.individual, second.individual>>} :
          \E kept \in {Collected(IF alone THEN first.heap ELSE second.heap,
                                 individuals)} :
              output' = [output EXCEPT
                 !.heap = kept.heap,
                 !.population = SubSeq(kept.individuals, 1, Len(output.population)),
                 !.offspring = SubSeq(kept.individuals, Len(output.population) + 1,
                                      Len(kept.individuals)),
                 !.twice = @ \/ parent1.Solution = parent2.Solution]
    /\ UNCHANGED <<input, schedVars>>

\* The survivors are the parents of the next generation
HeapSelectSurvivors ==
    /\ HeapRunAt("generation")
    /\ output.gen < input.NumGenerations
    /\ Len(output.offspring) = input.PopSize
    /\ LET kept == Collected(output.heap,
                             Survivors(output.population \o output.offspring,
                                       input.PopSize))
       IN  output' = [output EXCEPT
                         !.heap = kept.heap,
                         !.population = kept.individuals,
                         !.offspring = <<>>,
                         !.twice = FALSE,
                         !.parents = Snapshot(kept.heap, kept.individuals),
                         !.gen = @ + 1]
    /\ UNCHANGED <<input, schedVars>>

HeapReturnPopulation ==
    /\ HeapRunAt("generation")
    /\ output.gen = input.NumGenerations
    /\ output' = [output EXCEPT !.pc = "returned"]
    /\ UNCHANGED <<input, schedVars>>

\* RealSolution.Clone: a new slice of zeros
HeapRealClone(heap, sol, bounds) ==
    HeapAlloc(heap, RealSolutionClone(RealSolution(heap[sol], bounds)).Variables)

\* RealSolution.Crossover on the solutions at s and o: the variables of the
\* children are computed from those of s and o and written to the clones
HeapRealCrossover(heap, s, o, bounds, crossed, betas) ==
    LET child1 == HeapRealClone(heap, s, bounds)
        child2 == HeapRealClone(child1.heap, o, bounds)
        children == RealSolutionCrossover(RealSolution(heap[s], bounds),
                                          RealSolution(heap[o], bounds),
                                          crossed, betas)
    IN  [heap |-> [child2.heap EXCEPT
                      ![child1.addr] = children.child1.Variables,
                      ![child2.addr] = children.child2.Variables],
         child1 |-> child1.addr,
         child2 |-> child2.addr]

\* One round of the offspring loop on two real-valued parents, up to
\* Evaluate: Crossover, then Mutate on each child
CallRealOffspring ==
    /\ input.fn = "RealOffspring"
    /\ output = NoCall
    /\ \E crossed \in BOOLEAN :
       \E draws \in IF crossed
                    THEN [DOMAIN input.bounds -> SpreadDraws]
                    ELSE {<<>>} :
          LET betas == [i \in DOMAIN draws |-> draws[i].beta]
              crossover == HeapRealCrossover(input.heap, input.parent1,
                                             input.parent2, input.bounds,
                                             crossed, betas)
          IN  \E child1 \in RealSolutionMutate(
                                RealSolution(crossover.heap[crossover.child1],
                                             input.bounds)) :
              \E child2 \in RealSolutionMutate(
                                RealSolution(crossover.heap[crossover.child2],
                                             input.bounds)) :
                 output' = [fn |-> "RealOffspring",
                            heap |-> [crossover.heap EXCEPT
                                         ![crossover.child1] = child1.Variables,
                                         ![crossover.child2] = child2.Variables],
                            child1 |-> crossover.child1,
                            child2 |-> crossover.child2]
    /\ UNCHANGED <<input, schedVars>>

NextOffspring ==
    \/ HeapRunInitialize
    \/ HeapGenerateOffspring
    \/ HeapSelectSurvivors
    \/ HeapReturnPopulation
    \/ CallRealOffspring

\* Run on the scheduling problem with a population of at least one
\* individual, for no generation or as many as the bound allows (a run
\* passes through every smaller number of generations), or one round of the offspring loop on a population of two
\* real-valued solutions of one variable, for any two parents
InitOffspring ==
    /\ NoScheduling
    /\ \/ \E PopSize \in 1..MaxPopSize : \E NumGenerations \in {0, MaxGenerations} :
             input = [fn |-> "RunOffspring", PopSize |-> PopSize,
                      NumGenerations |-> NumGenerations]
       \/ \E sol, other \in SolutionsWithin(<<ZDT1Bounds>>) :
          \E parent1, parent2 \in 1..2 :
             input = [fn |-> "RealOffspring",
                      heap |-> <<sol.Variables, other.Variables>>,
                      bounds |-> <<ZDT1Bounds>>,
                      parent1 |-> parent1, parent2 |-> parent2]
    /\ output = NoCall

SpecOffspring == InitOffspring /\ [][NextOffspring]_vars

----------------------------------------------------------------------------
\* Empty inputs

\* Pods of web, with a candidate-node list that is empty or holds node A,
\* arrive while a fresh plan has slots for web on A, and Run is called with
\* popSize = 0; or Run is called with any popSize and no pod arrives
InitEmpty ==
    \/ InitRun
    \/ /\ \E NumGenerations \in 0..MaxGenerations :
             input = [fn |-> "Run", PopSize |-> 0,
                      NumGenerations |-> NumGenerations]
       /\ output = NoCall
       /\ now = 1
       /\ controlPlane = {}
       /\ faulty = {}
       /\ serial = FALSE
       /\ store = StoreOf({Hint("f1", "f1", now + 1,
                     <<Solution(1, <<Movement("web", [A |-> MaxTarget],
                                              [A |-> MaxTarget])>>),
                       DecoySolution>>)})
       /\ InitCycles(1..NumPods, {WebPod({}), WebPod({"A"})})

NextEmpty == Next \/ NextRun

SpecEmpty == InitEmpty /\ [][NextEmpty]_vars

----------------------------------------------------------------------------
\* The power objective

NegInf == [kind |-> "inf", num |-> -1, den |-> 1]

\* n / d of two integers as float64, n not negative: +Inf or NaN when d = 0
Quotient(n, d) ==
    IF d # 0 THEN Ratio(n, d) ELSE IF n = 0 THEN NaN ELSE Inf

\* x * y, x finite: 0 times an infinity is NaN
Scale(x, y) ==
    IF y.kind = "nan" THEN NaN
    ELSE IF y.kind = "num" THEN FloatMul(x, y)
    ELSE IF x.num = 0 THEN NaN
    ELSE IF x.num > 0 THEN y ELSE NegInf

\* x + y, x finite
Sum(x, y) == IF y.kind = "num" THEN FloatAdd(x, y) ELSE y

utilizationThreshold == Ratio(1, 5)

\* No penalty at all
NoPenalty(pIdle, currentUtil) == [coef |-> Float(0), exponent |-> Float(0)]

\* pIdle * math.Exp(-5.0*currentUtil/utilizationThreshold) below the threshold,
\* kept as the term coef * e^exponent: a power of e with a fraction other
\* than 0 as exponent is no fraction
Penalty(pIdle, currentUtil) ==
    IF FloatLess(currentUtil, utilizationThreshold)
    THEN [coef |-> pIdle,
          exponent |-> FloatDiv(FloatMul(Float(-5), currentUtil),
                                utilizationThreshold)]
    ELSE [coef |-> Float(0), exponent |-> Float(0)]

\* linear + coef * e^exponent as a value: the term is a fraction, and added
\* to the other, when coef = 0 or exponent = 0, so that two sums are the same
\* number exactly when they are the same record
PowerSum(linear, penalty) ==
    IF penalty.coef = Float(0) \/ penalty.exponent = Float(0)
    THEN [linear |-> Sum(penalty.coef, linear),
          coef |-> Float(0), exponent |-> Float(0)]
    ELSE [linear |-> linear,
          coef |-> penalty.coef, exponent |-> penalty.exponent]

\* The power of a node with the pod on it; the annotations are whole watts
calculatePowerConsumption(pIdle, pBusy, Requested, Allocatable, podMilliCPU) ==
    LET currentUtil == Quotient(Requested, Allocatable)
        newUtil == Quotient(Requested + podMilliCPU, Allocatable)
        penalty == Penalty(Float(pIdle), currentUtil)
    IN  PowerSum(Sum(Float(pIdle), Scale(Float(pBusy - pIdle), newUtil)),
                 penalty)

CallPower ==
    /\ input.fn = "calculatePowerConsumption"
    /\ output = NoCall
    /\ output' = [fn |-> "calculatePowerConsumption",
                  power |-> calculatePowerConsumption(
                                input.pIdle, input.pBusy, input.Requested,
                                input.Allocatable, input.podMilliCPU)]
    /\ UNCHANGED <<input, schedVars>>

\* A pod with any CPU request on a node with any power annotations, any
\* allocatable CPU and no more CPU requested than allocatable
InitPower ==
    /\ NoScheduling
    /\ \E pIdle, pBusy \in 0..MaxWatts :
       \E Allocatable \in 0..MaxMilliCPU :
       \E Requested \in 0..Allocatable :
       \E podMilliCPU \in 0..MaxMilliCPU :
          input = [fn |-> "calculatePowerConsumption",
                   pIdle |-> pIdle, pBusy |-> pBusy,
                   Requested |-> Requested, Allocatable |-> Allocatable,
                   podMilliCPU |-> podMilliCPU]
    /\ output = NoCall

SpecPower == InitPower /\ [][CallPower]_vars

----------------------------------------------------------------------------
\* Selection by weights

\* The weighted sum of the objectives: score += value * (1 - weights[i]),
\* from 0.0, for the values from index i on
RECURSIVE WeightedScore(_, _, _, _)
WeightedScore(value, weights, i, sum) ==
    IF i > Len(value) THEN sum
    ELSE WeightedScore(value, weights, i + 1,
             FloatAdd(sum,
                      Scale(FloatSub(Float(1), weights[i]), value[i])))

\* The loop over the population from index i on: the index of the best
\* solution so far, 0 for nil, changes when a score is below the best score
RECURSIVE SelectFrom(_, _, _, _, _)
SelectFrom(population, weights, i, bestScore, bestSolution) ==
    IF i > Len(population) THEN bestSolution
    ELSE LET weighted == WeightedScore(population[i].Value, weights, 1, Float(0))
         IN  IF FloatLess(weighted, bestScore)
             THEN SelectFrom(population, weights, i + 1, weighted, i)
             ELSE SelectFrom(population, weights, i + 1, bestScore, bestSolution)

\* SelectByWeights: nil for an empty population, else the best of the loop
SelectByWeights(population, weights) ==
    IF Len(population) = 0 THEN 0
    ELSE SelectFrom(population, weights, 1, Inf, 0)

\* The weights of a configuration: multiples of 1/WeightSteps that sum to 1
ObjectiveWeights ==
    {[k \in 1..2 |-> Ratio(w[k], WeightSteps)] :
        w \in {v \in [1..2 -> 0..WeightSteps] : v[1] + v[2] = WeightSteps}}

CallSelectByWeights ==
    /\ input.fn = "SelectByWeights"
    /\ output = NoCall
    /\ output' = [fn |-> "SelectByWeights",
                  bestSolution |-> SelectByWeights(input.population, input.weights)]
    /\ UNCHANGED <<input, schedVars>>

InitSelect ==
    /\ NoScheduling
    /\ \E population \in Populations(MaxIndividuals) :
       \E weights \in ObjectiveWeights :
          input = [fn |-> "SelectByWeights", population |-> population,
                   weights |-> weights]
    /\ output = NoCall

SpecSelect == InitSelect /\ [][CallSelectByWeights]_vars

----------------------------------------------------------------------------
\* The resource requests of a pod. int64 is scaled down to IntWidth bits:
\* the sums wrap around as two's complement sums of that width do

MaxInt64 == 2 ^ (IntWidth - 1) - 1

\* The value an integer of the width takes for the number n
Wrap(n) == ((n + 2 ^ (IntWidth - 1)) % 2 ^ IntWidth) - 2 ^ (IntWidth - 1)

\* The loop of getPodMilliCPURequest from container i on: a request that
\* would take the total above MaxInt64 ends the loop with MaxInt64
RECURSIVE MilliCPUFrom(_, _, _)
MilliCPUFrom(containers, i, total) ==
    IF i > Len(containers) THEN total
    ELSE LET milliCPU == containers[i]
         IN  IF milliCPU > 0 /\ total > MaxInt64 - milliCPU
             THEN MaxInt64
             ELSE MilliCPUFrom(containers, i + 1, Wrap(total + milliCPU))

getPodMilliCPURequest(containers) == MilliCPUFrom(containers, 1, 0)

\* The loop of getPodMemoryRequest from container i on
RECURSIVE MemoryFrom(_, _, _)
MemoryFrom(containers, i, total) ==
    IF i > Len(containers) THEN total
    ELSE MemoryFrom(containers, i + 1, Wrap(total + containers[i]))

getPodMemoryRequest(containers) == MemoryFrom(containers, 1, 0)

CallMilliCPURequest ==
    /\ input.fn = "getPodMilliCPURequest"
    /\ output = NoCall
    /\ output' = [fn |-> "getPodMilliCPURequest",
                  total |-> getPodMilliCPURequest(input.containers)]
    /\ UNCHANGED <<input, schedVars>>

CallMemoryRequest ==
    /\ input.fn = "getPodMemoryRequest"
    /\ output = NoCall
    /\ output' = [fn |-> "getPodMemoryRequest",
                  total |-> getPodMemoryRequest(input.containers)]
    /\ UNCHANGED <<input, schedVars>>

NextRequests ==
    \/ CallMilliCPURequest
    \/ CallMemoryRequest

\* A pod has containers whose requests are not negative
InitRequests ==
    /\ NoScheduling
    /\ \E n \in 0..MaxContainers :
       \E containers \in [1..n -> 0..MaxInt64] :
          \/ input = [fn |-> "getPodMilliCPURequest", containers |-> containers]
          \/ input = [fn |-> "getPodMemoryRequest", containers |-> containers]
    /\ output = NoCall

SpecRequests == InitRequests /\ [][NextRequests]_vars

----------------------------------------------------------------------------
\* What the claims speak of

\* The hint of the store under the name of the cluster's fingerprint
CurrentHint(st) == st[generateHintName(CurrentFingerprint)]

\* The movements of the top solution of a hint (none if there is no solution)
TopMovements(hint) ==
    IF hint = NoHint \/ Len(hint.Spec.Solutions) = 0 THEN <<>>
    ELSE hint.Spec.Solutions[1].ReplicaSetMovements

\* available[n] of the movement of group g in the top solution, 0 if none
AvailableIn(hint, g, n) ==
    LET ms == TopMovements(hint)
        i == FindMovement(ms, g, 1)
    IN  IF i = 0 THEN 0 ELSE MapGet(ms[i].AvailableSlots, n)

Balanced(movement) ==
    \A n \in Nodes :
        /\ MapGet(movement.ScheduledCount, n) + MapGet(movement.AvailableSlots, n)
              = MapGet(movement.TargetDistribution, n)
        /\ MapGet(movement.AvailableSlots, n) >= 0

Groups == {getReplicaSetKey(pods[p]) : p \in Pods}

\* The pods of group g whose Score returned max for node n
Granted(g, n) ==
    {p \in Pods : getReplicaSetKey(pods[p]) = g /\ score[p][n] = MaxNodeScore}

\* The Score call of p on its target node has gone through tryConsumeSlot
Reserved(p) == rsv[p].phase = "returned"

\* C1: in every state of the store, every movement of every solution of every
\* hint has scheduled[n] + available[n] = target[n] and available[n] >= 0 for
\* every node n, whatever reservations were attempted and however they
\* interleaved.
C1_CountersBalanced ==
    \A name \in HintNames :
        store[name] # NoHint =>
            \A i \in DOMAIN store[name].Spec.Solutions :
                LET ms == store[name].Spec.Solutions[i].ReplicaSetMovements
                IN  \A j \in DOMAIN ms : Balanced(ms[j])

\* Two reservations of the same movement were committed
C1_Witness ==
    \E p, q \in Pods :
        /\ p # q
        /\ commits[p] = 1 /\ commits[q] = 1
        /\ cycle[p].RSKey = cycle[q].RSKey

\* C2: for every group g and node n, the number of pods of g whose Score
\* returned max for n equals the amount by which available[n] of g's movement
\* has decreased in the store, and is at most the initial available[n].
C2_SlotConsumedOnce ==
    \A g \in Groups : \A n \in Nodes :
        LET before == AvailableIn(CurrentHint(plan0), g, n)
            after == AvailableIn(CurrentHint(store), g, n)
        IN  /\ Cardinality(Granted(g, n)) = before - after
            /\ Cardinality(Granted(g, n)) <= before

\* Two pods of a group reserved on the same node: one was granted the last
\* slot, the other was refused
C2_Witness ==
    \E p, q \in Pods : \E n \in Nodes :
        /\ p # q
        /\ cycle[p].kind = "MultiObjectiveState" /\ cycle[p].TargetNode = n
        /\ cycle[q].kind = "MultiObjectiveState" /\ cycle[q].TargetNode = n
        /\ cycle[p].RSKey = cycle[q].RSKey
        /\ score[p][n] = MaxNodeScore
        /\ Reserved(q) /\ score[q][n] = MinNodeScore
        /\ AvailableIn(CurrentHint(store), cycle[p].RSKey, n) = 0

\* p and q are the only pods that have called tryConsumeSlot, both for the
\* last slot of the same group on node n, both calls have returned, and no
\* API call failed but by conflict
LastSlotRace(p, q, n) ==
    /\ p # q
    /\ faulty = {}
    /\ Reserved(p) /\ Reserved(q)
    /\ \A r \in Pods \ {p, q} : rsv[r].phase = "idle"
    /\ cycle[p].TargetNode = n /\ cycle[q].TargetNode = n
    /\ cycle[p].RSKey = cycle[q].RSKey
    /\ AvailableIn(CurrentHint(plan0), cycle[p].RSKey, n) = 1

\* C3: when exactly two pods of a group have raced for the last slot of a node
\* and nobody else wrote the plan, one Score returned max and the other min,
\* neither used more than 3 attempts, available is 0 and the counters balance.
C3_LastSlotRace ==
    \A p, q \in Pods : \A n \in Nodes :
        LastSlotRace(p, q, n) =>
            /\ {score[p][n], score[q][n]} = {MinNodeScore, MaxNodeScore}
            /\ rsv[p].attempt <= maxRetries /\ rsv[q].attempt <= maxRetries
            /\ AvailableIn(CurrentHint(store), cycle[p].RSKey, n) = 0
            /\ C1_CountersBalanced

\* The race was lost on a conflict: the loser fetched the plan while the slot
\* was there, and its write was rejected
C3_Witness ==
    \E p, q \in Pods : \E n \in Nodes :
        /\ LastSlotRace(p, q, n)
        /\ score[q][n] = MinNodeScore
        /\ calls[q].updates = 1


\* PreScore has written the cycle state of p
PreScored(p) == pc[p] = "scoring" /\ cycle[p].kind = "MultiObjectiveState"

\* No Score call of p has returned more than min
OnlyMin(p) == \A n \in Nodes : score[p][n] \in {NoScore, MinNodeScore}

\* C4: Score returns min or max only, and max exactly when the cycle state is
\* a MultiObjectiveState with HasHint set, the node is the stored target and
\* the reservation for the pod was committed.
C4_ScoreValues ==
    \A p \in Pods : \A n \in Nodes :
        /\ score[p][n] \in {NoScore, MinNodeScore, MaxNodeScore}
        /\ score[p][n] = MaxNodeScore <=>
              /\ cycle[p].kind = "MultiObjectiveState"
              /\ cycle[p].HasHint
              /\ n = cycle[p].TargetNode
              /\ commits[p] = 1
        /\ n \notin pods[p].Fits => score[p][n] = NoScore

\* Every way to min and the way to max have been taken: a pod without state,
\* a pod without hint, and two pods with the same target of which one was
\* refused, all nodes scored
C4_Witness ==
    \E p, q \in Pods :
        /\ p # q
        /\ CycleOver(p) /\ CycleOver(q)
        /\ PreScored(p) /\ cycle[p].HasHint /\ commits[p] = 1
        /\ score[p][cycle[p].TargetNode] = MaxNodeScore
        /\ \/ cycle[q].kind # "MultiObjectiveState"
           \/ PreScored(q) /\ cycle[q].HasHint /\ commits[q] = 0
              /\ cycle[q].TargetNode = cycle[p].TargetNode

\* The store holds no hint for the cluster's fingerprint, or one without
\* solutions
NoPlan(st) ==
    \/ CurrentHint(st) = NoHint
    \/ Len(CurrentHint(st).Spec.Solutions) = 0

\* C5: when the store has no hint for the current fingerprint, or the hint has
\* no solutions, PreScore stores HasHint = false and TargetNode = "", every
\* Score returns min, and tryConsumeSlot is never called nor the store written.
C5_NoPlanScoresMin ==
    \A p \in Pods :
        (PreScored(p) /\ NoPlan(store)) =>
            /\ ~cycle[p].HasHint /\ cycle[p].TargetNode = ""
            /\ OnlyMin(p)
            /\ rsv[p] = IdleCall
            /\ store = plan0

\* The store holds a hint for another fingerprint only, and every node was
\* scored
C5_Witness ==
    \E p \in Pods :
        /\ PreScored(p) /\ CycleOver(p)
        /\ pods[p].Fits = Nodes
        /\ CurrentHint(store) = NoHint
        /\ \E name \in HintNames : store[name] # NoHint
        /\ \A n \in Nodes : score[p][n] = MinNodeScore

Expired(hint) == hint.Spec.ExpirationTime < now

\* C6: a hint whose expirationTime is in the past is never used: PreScore
\* records HasHint = false, every node scores min and no slot is consumed.
C6_ExpiredNeverUsed ==
    \A p \in Pods :
        (PreScored(p) /\ CurrentHint(store) # NoHint /\ Expired(CurrentHint(store))) =>
            /\ ~cycle[p].HasHint
            /\ OnlyMin(p)
            /\ store = plan0

\* C7: a hint is used only if the fingerprint stored in it equals the one the
\* scorer computed; a hint found under the name of the computed fingerprint
\* with another fingerprint in it is treated as no hint.
C7_FingerprintMatches ==
    \A p \in Pods :
        (PreScored(p) /\ CurrentHint(store) # NoHint
           /\ CurrentHint(store).Spec.ClusterFingerprint
                 # CurrentFingerprint) =>
            /\ ~cycle[p].HasHint
            /\ OnlyMin(p)
            /\ store = plan0

----------------------------------------------------------------------------
\* Target selection

\* The movement of p's group in the top solution of the plan as it was when
\* the run began (the pods of these runs read no later plan in PreScore)
HasMovement0(p) ==
    /\ ~NoPlan(plan0)
    /\ FindMovement(TopMovements(CurrentHint(plan0)), getReplicaSetKey(pods[p]), 1) > 0

Movement0(p) ==
    LET ms == TopMovements(CurrentHint(plan0))
    IN  ms[FindMovement(ms, getReplicaSetKey(pods[p]), 1)]

\* The nodes of the movement that are candidates for p and have a slot left
Eligible(p) ==
    IF ~HasMovement0(p) THEN {}
    ELSE {n \in DOMAIN Movement0(p).TargetDistribution \cap pods[p].Fits :
             MapGet(Movement0(p).AvailableSlots, n) > 0}

LargestOf(p, n, among) ==
    /\ n \in among
    /\ \A m \in among : Movement0(p).TargetDistribution[m]
                           <= Movement0(p).TargetDistribution[n]

\* The eligible nodes that do not carry the control-plane label
EligibleWorkers(p) == Eligible(p) \ controlPlane

\* The target of p is the largest of `among`, or empty if there is none
Selected(p, among) ==
    IF among = {}
    THEN cycle[p].TargetNode = "" /\ ~cycle[p].HasHint
    ELSE cycle[p].HasHint /\ LargestOf(p, cycle[p].TargetNode, among)

\* C9 as claimed: the target PreScore selects is a candidate node of the
\* group's movement with available > 0 and the largest target among these; if
\* there is no such node, or no movement for the group, the target stays
\* empty.
C9_Original ==
    \A p \in Pods :
        (PreScored(p) /\ faulty = {} /\ ~NoPlan(plan0)) => Selected(p, Eligible(p))

\* C9, amended: the target PreScore selects is a candidate node without the
\* control-plane label of the group's movement with available > 0 and the
\* largest target among these; if there is no such node, or no movement for
\* the group, the target stays empty.
C9_TargetSelection ==
    \A p \in Pods :
        (PreScored(p) /\ faulty = {} /\ ~NoPlan(plan0)) =>
            Selected(p, EligibleWorkers(p))

\* A node was selected over an eligible node with a smaller target, while a
\* node of the movement had no slot left
C9_Witness ==
    \E p \in Pods :
        /\ PreScored(p) /\ cycle[p].HasHint
        /\ \E m \in EligibleWorkers(p) :
              Movement0(p).TargetDistribution[m]
                 < Movement0(p).TargetDistribution[cycle[p].TargetNode]
        /\ \E m \in DOMAIN Movement0(p).TargetDistribution \cap pods[p].Fits :
              m \notin Eligible(p)

\* A node with the largest target of p's movement did not pass the filters
TopTargetFilteredOut(p) ==
    /\ HasMovement0(p)
    /\ \E d \in DOMAIN Movement0(p).TargetDistribution \ pods[p].Fits :
          LargestOf(p, d, DOMAIN Movement0(p).TargetDistribution)

\* What C10 concludes, with `among` the nodes PreScore selects from
NextLargest(p, among) ==
    /\ cycle[p].TargetNode \in pods[p].Fits \cup {""}
    /\ IF among # {}
       THEN LargestOf(p, cycle[p].TargetNode, among)
       ELSE /\ \A n \in pods[p].Fits : score[p][n] \in {NoScore, MinNodeScore}
            /\ rsv[p] = IdleCall
            /\ store = plan0

\* C10 as claimed: when the node with the largest target is not a candidate,
\* PreScore selects the candidate with the largest target among those with a
\* slot left; if there is none, every candidate scores min and no slot is
\* consumed.
C10_Original ==
    \A p \in Pods :
        (PreScored(p) /\ faulty = {} /\ TopTargetFilteredOut(p)) =>
            NextLargest(p, Eligible(p))

\* C10, amended: when the node with the largest target is not a candidate,
\* PreScore selects the candidate without the control-plane label with the
\* largest target among those with a slot left; if there is none, every
\* candidate scores min and no slot is consumed.
C10_TargetFilteredOut ==
    \A p \in Pods :
        (PreScored(p) /\ faulty = {} /\ TopTargetFilteredOut(p)) =>
            NextLargest(p, EligibleWorkers(p))

\* The node with the strictly largest target was filtered out, and the pod
\* got max on the next one
C10_Witness ==
    \E p \in Pods :
        /\ PreScored(p) /\ TopTargetFilteredOut(p)
        /\ cycle[p].HasHint
        /\ score[p][cycle[p].TargetNode] = MaxNodeScore
        /\ \E d \in DOMAIN Movement0(p).TargetDistribution \ pods[p].Fits :
              Movement0(p).TargetDistribution[d]
                 > Movement0(p).TargetDistribution[cycle[p].TargetNode]

----------------------------------------------------------------------------
\* Pods scheduled one after another

\* The movement for web in the top solution of a hint
WebMovement(hint) ==
    LET ms == TopMovements(hint)
    IN  ms[FindMovement(ms, "default/web", 1)]

\* Pods of web are scheduled one after another, each by PreScore and Score,
\* no API call fails, every target node passes the filters for every pod, the
\* plan began with available = target, and there are as many pods as
\* replicas in the target distribution
SerialFill ==
    /\ serial /\ faulty = {}
    /\ \A p \in Pods :
          /\ getReplicaSetKey(pods[p]) = "default/web"
          /\ pc[p] = "pending" \/ PreScored(p)
          /\ DOMAIN WebMovement(CurrentHint(plan0)).TargetDistribution
                \subseteq pods[p].Fits
    /\ WebMovement(CurrentHint(plan0)).AvailableSlots
          = WebMovement(CurrentHint(plan0)).TargetDistribution
    /\ MapSum(WebMovement(CurrentHint(plan0)).TargetDistribution,
              DOMAIN WebMovement(CurrentHint(plan0)).TargetDistribution)
          = Cardinality(Pods)

\* No slot of a node is taken while a node with a larger target has one left
LargestTargetFirst(movement) ==
    \A n, m \in DOMAIN movement.TargetDistribution :
        (movement.TargetDistribution[m] > movement.TargetDistribution[n]
           /\ MapGet(movement.ScheduledCount, n) > 0)
        => MapGet(movement.AvailableSlots, m) = 0

\* What C8 concludes
FilledInOrder ==
    LET movement == WebMovement(CurrentHint(store))
    IN  /\ LargestTargetFirst(movement)
        /\ (\A p \in Pods : CycleOver(p)) =>
              /\ \A p \in Pods :
                    Cardinality({n \in Nodes : score[p][n] = MaxNodeScore}) = 1
              /\ \A n \in DOMAIN movement.TargetDistribution :
                    /\ movement.AvailableSlots[n] = 0
                    /\ MapGet(movement.ScheduledCount, n)
                          = movement.TargetDistribution[n]

\* C8 as claimed: when the pods of a group are scheduled one after another
\* against a fresh plan with as many replicas as pods and every target node is
\* a candidate, nodes are filled largest target first, and once all pods are
\* scored every pod has max on exactly one node, available is 0 and scheduled
\* equals target on every node.
C8_Original == SerialFill => FilledInOrder

\* C8, amended: the same, provided no target node carries the control-plane
\* label.
C8_SerialFill ==
    (SerialFill
       /\ DOMAIN WebMovement(CurrentHint(plan0)).TargetDistribution
             \cap controlPlane = {})
    => FilledInOrder

\* Target {A:2, B:1}, and C is a control-plane node without target: all pods
\* are scored, two have max on A and one on B
C8_Witness ==
    /\ SerialFill
    /\ controlPlane = {"C"}
    /\ \A p \in Pods : CycleOver(p)
    /\ WebMovement(CurrentHint(plan0)).TargetDistribution = [A |-> 2, B |-> 1]
    /\ Cardinality(Granted("default/web", "A")) = 2
    /\ Cardinality(Granted("default/web", "B")) = 1
    /\ WebMovement(CurrentHint(store)).AvailableSlots = [A |-> 0, B |-> 0]
    /\ WebMovement(CurrentHint(store)).ScheduledCount = [A |-> 2, B |-> 1]

----------------------------------------------------------------------------
\* The retry loop of tryConsumeSlot

\* tryConsumeSlot is running for p
Reserving(p) == rsv[p].phase \in {"get", "update"}

\* The call of tryConsumeSlot for p returned false
Refused(p) ==
    /\ Reserved(p)
    /\ cycle[p].kind = "MultiObjectiveState"
    /\ score[p][cycle[p].TargetNode] = MinNodeScore

\* No call has made more than maxRetries fetches or writes, and a call that
\* has returned without a committed write has returned false
AttemptsBounded ==
    \A p \in Pods :
        /\ rsv[p].attempt <= maxRetries
        /\ calls[p].gets <= maxRetries
        /\ calls[p].updates <= maxRetries
        /\ calls[p].updates <= calls[p].gets
        /\ (Reserved(p) /\ commits[p] = 0) => Refused(p)

\* C11: a call of tryConsumeSlot makes at most 3 fetches and at most 3
\* conditional writes, whatever the store answers (conflicts, errors of Get,
\* errors of Update) and whoever else reserves; it always returns, and when
\* no write was committed it returns false.
C11_BoundedRetry ==
    /\ []AttemptsBounded
    /\ \A p \in 1..NumPods : Reserving(p) ~> Reserved(p)

\* A call has used its three attempts without a committed write, while
\* another pod has reserved: two fetches failed, and the write that followed
\* the third was refused
C11_Witness ==
    \E p, q \in Pods :
        /\ p # q
        /\ Refused(p)
        /\ rsv[p].attempt = maxRetries
        /\ calls[p].gets = maxRetries /\ calls[p].updates = 1
        /\ commits[q] = 1

\* This step is a fetch made for p that showed no slot on its target node for
\* its group
NoSlotShown(p) ==
    /\ calls'[p].gets = calls[p].gets + 1
    /\ calls'[p].found
    /\ calls'[p].slots <= 0

\* C12: when the freshly fetched plan shows available[nodeName] <= 0 for the
\* pod's group, tryConsumeSlot returns false in that attempt: Score returns
\* min, nothing is written, and no Get or Update follows, also when attempts
\* remain.
C12_NoSlotNoRetry ==
    [][\A p \in Pods :
          /\ NoSlotShown(p) =>
                /\ rsv'[p].phase = "returned"
                /\ score'[p][cycle[p].TargetNode] = MinNodeScore
                /\ calls'[p].updates = calls[p].updates
                /\ store' = store
          /\ Reserved(p) => calls'[p] = calls[p] /\ commits'[p] = commits[p]]_vars

\* The first fetch of a call failed, the second showed that the last slot
\* was gone, and the call returned with an attempt left
C12_Witness ==
    \E p \in Pods :
        /\ Refused(p)
        /\ calls[p].found /\ calls[p].slots = 0
        /\ calls[p].gets = maxRetries - 1 /\ calls[p].updates = 0
        /\ rsv[p].attempt = maxRetries - 1

\* scheduled[n] of the movement of group g in the top solution, 0 if none
ScheduledIn(hint, g, n) ==
    LET ms == TopMovements(hint)
        i == FindMovement(ms, g, 1)
    IN  IF i = 0 THEN 0 ELSE MapGet(ms[i].ScheduledCount, n)

\* The pods of group g whose reservation on node n the store accepted
Committed(g, n) ==
    {p \in Pods : /\ commits[p] = 1
                  /\ cycle[p].RSKey = g
                  /\ cycle[p].TargetNode = n}

\* C13: a reservation that fails, for whatever reason, leaves the stored plan
\* as if it had not been called: a call that returned false has no committed
\* write, the counters of the store differ from the initial ones by exactly
\* the committed reservations, and while none is committed the store is the
\* initial one.
C13_FailureLeavesStore ==
    /\ \A p \in Pods : Refused(p) => commits[p] = 0
    /\ \A g \in Groups : \A n \in Nodes :
          /\ AvailableIn(CurrentHint(plan0), g, n)
                - AvailableIn(CurrentHint(store), g, n) = Cardinality(Committed(g, n))
          /\ ScheduledIn(CurrentHint(store), g, n)
                - ScheduledIn(CurrentHint(plan0), g, n) = Cardinality(Committed(g, n))
    /\ (\A p \in Pods : commits[p] = 0) => store = plan0

\* A call gave up after three attempts of which at least one got as far as a
\* write that returned an error, and the store is as it was
C13_Witness ==
    \E p \in Pods :
        /\ Refused(p) /\ CycleOver(p)
        /\ calls[p].gets = maxRetries /\ calls[p].updates >= 1
        /\ \A q \in Pods : commits[q] = 0
        /\ store = plan0

----------------------------------------------------------------------------
\* Errors on the scoring path

\* The lookup of PreScore for p met an error: a list, the REST config or the
\* clientset failed, the Get failed, or the hint has no solutions
LookupFailed(p) == calls[p].err \/ calls[p].lookup # "none"

\* C14: no error on the scoring path aborts the cycle. Whatever failed (the
\* node list, the ReplicaSet list, the REST config, the clientset, the Get of
\* the hint, a hint without solutions, the reservation), PreScore returns
\* Success after writing the cycle state once, and Score returns Success, with
\* min on every node after a failed lookup and on the target after a failed
\* reservation.
C14_ErrorsNeverAbort ==
    \A p \in Pods :
        /\ status[p].PreScore \in {"none", "Success"}
        /\ status[p].PreScore = "Success" =>
              /\ cycle[p].kind = "MultiObjectiveState"
              /\ status[p].writes = 1
        /\ \A n \in Nodes :
              /\ status[p].Score[n] \in {"none", "Success"}
              /\ status[p].Score[n] = "Success" <=> score[p][n] # NoScore
        /\ LookupFailed(p) =>
              /\ status[p].PreScore = "Success"
              /\ ~cycle[p].HasHint
              /\ OnlyMin(p)
        /\ Refused(p) => status[p].Score[cycle[p].TargetNode] = "Success"

\* The lookup of a pod returned an error, PreScore wrote the state, and the
\* cycle went on to score every candidate node with min
C14_Witness ==
    \E p \in Pods :
        /\ calls[p].err
        /\ CycleOver(p)
        /\ \A n \in pods[p].Fits :
              status[p].Score[n] = "Success" /\ score[p][n] = MinNodeScore

----------------------------------------------------------------------------
\* Reservations under contention

\* The Score call of p on its target node has returned, every API call was
\* answered without error, and the store still shows a slot for p's group on
\* that node (as it has then shown all through the call: slots only go down)
SlotsRemain(p) ==
    /\ faulty = {}
    /\ Reserved(p)
    /\ cycle[p].kind = "MultiObjectiveState" /\ cycle[p].HasHint
    /\ AvailableIn(CurrentHint(store), cycle[p].RSKey, cycle[p].TargetNode) > 0

\* C15: whenever Score is invoked on the target node while available[target]
\* > 0 remains in the store for the pod's group, it returns max, also when
\* several pods of the plan reserve concurrently.
C15_MaxWhileSlotsRemain ==
    \A p \in Pods :
        SlotsRemain(p) => score[p][cycle[p].TargetNode] = MaxNodeScore

----------------------------------------------------------------------------
\* What a reservation changes

\* Movement `new` is movement `old` with one slot of node n consumed and
\* nothing else changed
OneSlotConsumed(old, new, n) ==
    /\ new.ReplicaSetName = old.ReplicaSetName
    /\ new.Namespace = old.Namespace
    /\ new.TargetDistribution = old.TargetDistribution
    /\ MapGet(new.AvailableSlots, n) = MapGet(old.AvailableSlots, n) - 1
    /\ MapGet(new.ScheduledCount, n) = MapGet(old.ScheduledCount, n) + 1
    /\ \A m \in Nodes \ {n} :
          /\ MapGet(new.AvailableSlots, m) = MapGet(old.AvailableSlots, m)
          /\ MapGet(new.ScheduledCount, m) = MapGet(old.ScheduledCount, m)

\* Hint `new` is hint `old` after one reservation for group g on node n
OneReservation(old, new, g, n) ==
    LET i == FindMovement(old.Spec.Solutions[1].ReplicaSetMovements, g, 1)
        before == old.Spec.Solutions[1].ReplicaSetMovements
        after == new.Spec.Solutions[1].ReplicaSetMovements
    IN  /\ new.Name = old.Name
        /\ new.Spec.ClusterFingerprint = old.Spec.ClusterFingerprint
        /\ new.Spec.ClusterNodes = old.Spec.ClusterNodes
        /\ new.Spec.ExpirationTime = old.Spec.ExpirationTime
        /\ Len(new.Spec.Solutions) = Len(old.Spec.Solutions)
        /\ \A k \in 2..Len(old.Spec.Solutions) :
              new.Spec.Solutions[k] = old.Spec.Solutions[k]
        /\ new.Spec.Solutions[1].Rank = old.Spec.Solutions[1].Rank
        /\ Len(after) = Len(before)
        /\ i > 0
        /\ \A j \in DOMAIN before : j # i => after[j] = before[j]
        /\ OneSlotConsumed(before[i], after[i], n)

\* C16: a successful reservation for group g on node n changes only
\* available[n] (minus 1) and scheduled[n] (plus 1) of g's movement in the
\* top solution; the targets, the counters of other nodes, the movements of
\* other groups, the other solutions, the fingerprint, the node list and the
\* expiry of the hint, and every other hint, stay as they are. Nothing else
\* changes the store.
C16_ReservationFrame ==
    [][store' # store =>
          \E p \in Pods :
              /\ commits'[p] = commits[p] + 1
              /\ score'[p][cycle[p].TargetNode] = MaxNodeScore
              /\ \A name \in HintNames \ {cycle[p].Hint.Name} :
                    store'[name] = store[name]
              /\ OneReservation(store[cycle[p].Hint.Name],
                                store'[cycle[p].Hint.Name],
                                cycle[p].RSKey, cycle[p].TargetNode)]_vars

\* Reservations were committed for web and for api on node B, next to the
\* untouched counters of web on node A
C16_Witness ==
    \E p, q \in Pods :
        /\ commits[p] = 1 /\ cycle[p].RSKey = "default/web"
        /\ commits[q] = 1 /\ cycle[q].RSKey = "default/api"
        /\ cycle[p].TargetNode = "B" /\ cycle[q].TargetNode = "B"
        /\ "A" \in DOMAIN WebMovement(CurrentHint(store)).TargetDistribution
        /\ Len(CurrentHint(store).Spec.Solutions) > 1

----------------------------------------------------------------------------
\* The cycle state

\* What a step may do to the cycle state of p: PreScore, called on a pending
\* pod, writes it once; no later step changes what was written
WrittenByPreScoreOnly(p) ==
    /\ status'[p].writes # status[p].writes =>
          /\ pc[p] = "pending" /\ pc'[p] = "scoring"
          /\ status'[p].writes = status[p].writes + 1
          /\ cycle'[p].kind = "MultiObjectiveState"
    /\ cycle[p].kind = "MultiObjectiveState" =>
          /\ cycle'[p] = cycle[p]
          /\ status'[p].writes = status[p].writes

\* C17: the cycle state is written by PreScore only, once per PreScore call
\* on every path, and no Score call modifies it: after any number of Score
\* calls, concurrent or not, TargetNode, HasHint, RSKey and Hint of the state
\* are what PreScore stored.
C17_StateReadOnly ==
    /\ [](\A p \in 1..NumPods :
             cycle[p].kind = "MultiObjectiveState" <=> status[p].writes = 1)
    /\ [][\A p \in Pods : WrittenByPreScoreOnly(p)]_vars

\* Two cycles finished next to each other; in one the target node was scored
\* by a reservation that took two attempts, after another node had been scored
C17_Witness ==
    \E p, q \in Pods :
        /\ p # q
        /\ CycleOver(p) /\ CycleOver(q)
        /\ PreScored(p) /\ PreScored(q)
        /\ cycle[p].HasHint /\ calls[p].gets >= 2
        /\ Cardinality(pods[p].Fits) > 1

----------------------------------------------------------------------------
\* Construction of the plugin

\* The weights sum to 1
WeightsSumToOne(args) ==
    MapSum(args.objectiveWeights, Objectives) = WeightSteps

\* C18: New rejects an invalid weight configuration: when the configured
\* objectiveWeights do not sum to 1 (within 1e-6; the sums here are off by
\* 1/WeightSteps or more), it returns an error and no plugin.
C18_InvalidWeightsRejected ==
    (output # NoCall /\ ~WeightsSumToOne(input.args)) =>
        output.err /\ ~output.plugin

----------------------------------------------------------------------------
\* The fingerprint

\* C19: the fingerprint does not depend on the order in which the nodes and
\* the ReplicaSets are listed, nor on ReplicaSets in a system namespace or
\* with zero desired replicas being listed or not: two listings with the same
\* set of worker-node names and the same set of <ns>/<name>=<replicas> of the
\* ReplicaSets that count have the same fingerprint.
C19_FingerprintCanonical ==
    (output # NoCall /\ output.lastCluster = output.firstCluster) =>
        output.last = output.first

\* The fingerprint was computed again after nodes or ReplicaSets were listed
\* in another order, a ReplicaSet that does not count had appeared and one
\* had disappeared, for a cluster of several workers and several groups
C19_Witness ==
    /\ output # NoCall
    /\ output.again /\ ~input.stale
    /\ input.changes = {"reordered", "inserted", "removed"}
    /\ Cardinality(output.lastCluster.workers) > 1
    /\ Cardinality(output.lastCluster.groups) > 1

----------------------------------------------------------------------------
\* NSGA-II

\* C20: the population Run returns has exactly popSize individuals, for every
\* popSize >= 0 and every number of generations >= 0.
C20_PopulationSize ==
    RunAt("returned") => Len(output.population) = input.PopSize

\* The individuals of the population whose rank field is 0
RankZero(population) ==
    {i \in DOMAIN population : population[i].Rank = 0}

\* C21: in the population Run returns, for every popSize and every number of
\* generations, 0 included, no individual whose rank field is 0 dominates
\* another individual whose rank field is 0.
C21_RankZeroNonDominated ==
    RunAt("returned") =>
        \A i, j \in RankZero(output.population) :
            i # j => ~Dominates(output.population[i], output.population[j])

----------------------------------------------------------------------------
\* Real-valued solutions

\* Every variable of the solution is a number within its bounds
InBounds(sol) ==
    \A i \in DOMAIN sol.Variables :
        /\ sol.Variables[i].kind = "num"
        /\ ~FloatLess(sol.Variables[i], sol.Bounds[i].L)
        /\ ~FloatLess(sol.Bounds[i].H, sol.Variables[i])

----------------------------------------------------------------------------
\* Empty inputs

\* Run was called with popSize = 0
EmptyRun == input.fn = "Run" /\ input.PopSize = 0 /\ output # NoCall

\* PreScore ran for pod p with an empty candidate-node list
EmptyListPreScored(p) ==
    /\ pods[p].Fits = {}
    /\ pc[p] = "scoring"
    /\ cycle[p].kind = "MultiObjectiveState"

\* C23: Run with popSize = 0 does not fail and returns an empty population,
\* for every number of generations: it is never stopped or stuck before it
\* returns, and its population is empty throughout. PreScore with an empty
\* candidate-node list selects no target, and every Score call of the cycle
\* returns min.
C23_EmptyInputs ==
    /\ EmptyRun =>
          /\ output.pc \in {"generation", "returned"}
          /\ output.population = <<>>
          /\ output.pc = "generation" => ENABLED NextRun
    /\ \A p \in Pods :
          EmptyListPreScored(p) =>
              /\ cycle[p].TargetNode = "" /\ ~cycle[p].HasHint
              /\ \A n \in Nodes : score[p][n] \in {NoScore, MinNodeScore}

\* Run has returned from the largest number of generations with popSize = 0,
\* and Score has returned for every node in the cycle of a pod whose
\* candidate-node list was empty while the plan had a slot for its group
C23_Witness ==
    /\ EmptyRun
    /\ output.pc = "returned"
    /\ output.gen = MaxGenerations
    /\ \E p \in Pods :
          /\ EmptyListPreScored(p)
          /\ AvailableIn(CurrentHint(store), cycle[p].RSKey, "A") > 0
          /\ \A n \in Nodes : score[p][n] = MinNodeScore

----------------------------------------------------------------------------
\* The power objective

\* calculatePowerConsumption has returned for a node whose p_busy is its p_idle
FlatPowerCall ==
    /\ input.fn = "calculatePowerConsumption"
    /\ output # NoCall
    /\ input.pBusy = input.pIdle

\* The power of the node of the call with other CPU requested by its pods and
\* another CPU request of the pod
PowerWith(Requested, podMilliCPU) ==
    calculatePowerConsumption(input.pIdle, input.pBusy, Requested,
                              input.Allocatable, podMilliCPU)

\* Two results are the same value: NaN is the same as nothing
SamePower(x, y) == x.linear.kind # "nan" /\ x = y

\* The utilization of the node of the call with that CPU requested is below
\* the threshold
LowUtilization(Requested) ==
    FloatLess(Quotient(Requested, input.Allocatable), utilizationThreshold)

----------------------------------------------------------------------------
\* Retrying a write

\* This step is an Update sent for p that the store did not commit
WriteFailed(p) ==
    /\ calls'[p].updates = calls[p].updates + 1
    /\ commits'[p] = commits[p]

\* This step is a Get made for p after which a write is about to be sent
WritePrepared(p) ==
    /\ calls'[p].gets = calls[p].gets + 1
    /\ rsv'[p].phase = "update"

\* C25: after a write that was rejected or failed before the last attempt the
\* reservation goes on with the fetch of the next attempt, and every write it
\* sends is the record just fetched in that attempt with one slot of the
\* target node consumed in the movement of the pod's group.
C25_RetryFromFreshFetch ==
    [][\A p \in Pods :
          /\ WriteFailed(p) /\ rsv[p].attempt < maxRetries =>
                /\ rsv'[p].phase = "get"
                /\ rsv'[p].attempt = rsv[p].attempt + 1
          /\ WritePrepared(p) =>
                LET old == TopMovements(store[cycle[p].Hint.Name])
                    new == TopMovements(rsv'[p].fresh)
                    i == FindMovement(old, cycle[p].RSKey, 1)
                IN  /\ rsv'[p].fresh.ResourceVersion =
                          store[cycle[p].Hint.Name].ResourceVersion
                    /\ OneSlotConsumed(old[i], new[i], cycle[p].TargetNode)
                    /\ \A j \in DOMAIN old \ {i} : new[j] = old[j]]_vars

----------------------------------------------------------------------------
\* The operators of NSGA-II

\* NonDominatedSort has returned
Sorted == input.fn = "NonDominatedSort" /\ output # NoCall

\* Nobody in the population dominates the individual at i
NonDominated(population, i) ==
    \A j \in DOMAIN population : ~Dominates(population[j], population[i])

\* C26: the fronts NonDominatedSort returns partition the population; front 0
\* is the set of the individuals nobody dominates; no individual dominates
\* another of its front; every individual of front k+1 is dominated by one of
\* front k; and the rank of an individual is the index of its front. (The sort
\* terminates: CallNonDominatedSort is enabled for every population.)
C26_FrontsPartition ==
    /\ Sorted =>
          LET population == input.population
              fronts == output.sorted.fronts
          IN  /\ \A i \in DOMAIN population :
                    Cardinality({pos \in {<<f, k>> : f \in DOMAIN fronts,
                                                     k \in 1..MaxIndividuals} :
                                    /\ pos[2] \in DOMAIN fronts[pos[1]]
                                    /\ fronts[pos[1]][pos[2]] = i}) = 1
              /\ {fronts[1][k] : k \in DOMAIN fronts[1]}
                    = {i \in DOMAIN population : NonDominated(population, i)}
              /\ \A f \in DOMAIN fronts : \A k, l \in DOMAIN fronts[f] :
                    ~Dominates(population[fronts[f][k]], population[fronts[f][l]])
              /\ \A f \in DOMAIN fronts \ {1} : \A k \in DOMAIN fronts[f] :
                    \E l \in DOMAIN fronts[f - 1] :
                        Dominates(population[fronts[f - 1][l]],
                                  population[fronts[f][k]])
              /\ \A f \in DOMAIN fronts : \A k \in DOMAIN fronts[f] :
                    /\ output.sorted.Rank[fronts[f][k]] = f - 1
                    /\ output.fronts[f][k].Rank = f - 1

----------------------------------------------------------------------------
\* Feasibility in the scheduling problem

BagOf(list) ==
    [x \in {list[i] : i \in DOMAIN list} |->
        Cardinality({i \in DOMAIN list : list[i] = x})]

\* The survivors of the combined population have been selected
SurvivorsSelected == input.fn = "Survivors" /\ output # NoCall

\* The individuals among them with the given rank
KeptOfRank(rank) ==
    SelectSeq(output.population, LAMBDA individual : individual.Rank = rank)

\* The individuals of the combined population that have the given rank after
\* the sort
NumOfRank(rank) ==
    Cardinality({i \in DOMAIN input.combined :
                    FrontIndices(input.combined).Rank[i] = rank})

Measured == input.fn = "CrowdingDistance" /\ output # NoCall

\* The values of objective m along the front taken in the order given by
\* place: the member at i comes at place[i]
ValuesInOrder(front, m, place) ==
    [p \in DOMAIN front |->
        front[CHOOSE i \in DOMAIN front : place[i] = p].Value[m]]

\* place is an ordering of the front by objective m, smallest value first
OrdersBy(front, m, place) ==
    LET values == ValuesInOrder(front, m, place)
    IN  \A p, q \in DOMAIN front : p < q => ~FloatLess(values[q], values[p])

\* What objective m adds to the distance of the member that comes at p, not
\* an end, in that ordering
AddedBy(front, m, place, p) ==
    LET values == ValuesInOrder(front, m, place)
        range == FloatSub(values[Len(front)], values[1])
    IN  IF range = Float(0) THEN Float(0)
        ELSE FloatDiv(FloatSub(values[p + 1], values[p - 1]), range)

\* C29: after CrowdingDistance every member of a front of at most 2 has the
\* distance +Inf. In a larger front there is for every objective an ordering
\* of the members by that objective such that a member that comes first or
\* last in one of the orderings has the distance +Inf, and every other member
\* the sum over the objectives of (next value - previous value) / range in
\* the ordering, where an objective whose range is 0 adds nothing.
C29_CrowdingDistance ==
    Measured =>
        LET front == output.front
            last == Len(front)
        IN  /\ BagOf([i \in DOMAIN front |-> front[i].Solution])
                  = BagOf([i \in DOMAIN front |-> input.front[i].Solution])
            /\ last <= 2 => \A i \in DOMAIN front : front[i].Distance = Inf
            /\ last > 2 =>
                  \E place1, place2 \in Permutations(DOMAIN front) :
                      /\ OrdersBy(front, 1, place1)
                      /\ OrdersBy(front, 2, place2)
                      /\ \A i \in DOMAIN front :
                            front[i].Distance =
                                IF place1[i] \in {1, last} \/ place2[i] \in {1, last}
                                THEN Inf
                                ELSE FloatAdd(AddedBy(front, 1, place1, place1[i]),
                                              AddedBy(front, 2, place2, place2[i]))

\* The distances of a front of the largest size were computed: its ends are
\* at +Inf and a member between them has a distance that is a number, not 0
C29_Witness ==
    /\ Measured
    /\ Len(output.front) = MaxIndividuals
    /\ \E i, j \in DOMAIN output.front :
          /\ output.front[i].Distance = Inf
          /\ output.front[j].Distance.kind = "num"
          /\ output.front[j].Distance # Float(0)

\* TournamentSelect has returned
TournamentOver ==
    input.fn = "TournamentSelect" /\ output # NoCall /\ ~output.panicked

\* C30: TournamentSelect returns one of the two individuals it drew from the
\* population, and that one is the better of the two: its rank is smaller
\* than the other's, or the ranks are equal and its crowding distance is not
\* smaller than the other's.
C30_TournamentWinner ==
    TournamentOver =>
        LET drawn == {input.population[output.best],
                      input.population[output.contestant]}
            winner == output.selected
        IN  /\ winner \in drawn
            /\ \A other \in drawn :
                  \/ winner.Rank < other.Rank
                  \/ /\ winner.Rank = other.Rank
                     /\ ~FloatLess(winner.Distance, other.Distance)

\* The second individual drawn from a population of the largest size won:
\* it has the rank of the first and a larger distance
C30_Witness ==
    /\ TournamentOver
    /\ Len(input.population) = MaxIndividuals
    /\ output.best # output.contestant
    /\ output.selected = input.population[output.contestant]
    /\ output.selected.Rank = input.population[output.best].Rank
    /\ FloatLess(input.population[output.best].Distance, output.selected.Distance)

----------------------------------------------------------------------------
\* C31: the binary crossover of two solutions of one length len >= 1 returns
\* two children of that length; when it takes place there is an index p in
\* [0, len) such that child1 is a[0..p) followed by b[p..len) and child2 is
\* b[0..p) followed by a[p..len); when it does not, child1 = a and
\* child2 = b; at every index the pair of the children's bits is the pair of
\* the parents' bits in one of its two orders. Bit-flip mutation keeps the
\* length.

\* The first p elements of x followed by the elements of y after them
SplicedAt(x, y, p) == SubSeq(x, 1, p) \o SubSeq(y, p + 1, Len(y))

BinaryCrossed ==
    input.fn = "BinaryCrossover" /\ output # NoCall

C31_BinaryOperators ==
    /\ BinaryCrossed =>
          LET a == input.s
              b == input.other
              len == Len(a)
          IN  /\ Len(output.child1) = len
              /\ Len(output.child2) = len
              /\ output.crossed =>
                     \E p \in 0..(len - 1) :
                        /\ output.child1 = SplicedAt(a, b, p)
                        /\ output.child2 = SplicedAt(b, a, p)
              /\ ~output.crossed => output.child1 = a /\ output.child2 = b
              /\ \A i \in 1..len :
                     <<output.child1[i], output.child2[i]>>
                        \in {<<a[i], b[i]>>, <<b[i], a[i]>>}
    /\ input.fn = "BinaryMutate" /\ output # NoCall =>
          Len(output.s) = Len(input.s)

\* A crossover in the middle of two solutions that differ on both sides of
\* the point
C31_Witness ==
    /\ BinaryCrossed
    /\ output.crossed
    /\ Len(input.s) = MaxBits
    /\ input.s[1] # input.other[1]
    /\ input.s[MaxBits] # input.other[MaxBits]
    /\ output.child1[1] = input.s[1]
    /\ output.child1[MaxBits] = input.other[MaxBits]

----------------------------------------------------------------------------
\* C32: Clone of a real-valued solution deep-copies the variables and shares
\* the bounds: the variables of the clone are those of the original at every
\* index, they are kept in a slice of their own, and a later change of the
\* clone's variables leaves the original's as they were.

Cloned == input.fn = "Clone" /\ output # NoCall

C32_CloneDeepCopies ==
    Cloned =>
        /\ output.Bounds = input.sol.Bounds
        /\ output.clone # output.sol
        /\ output.heap[output.sol] = input.sol.Variables
        /\ output.pc = "cloned" =>
               \A i \in DOMAIN input.sol.Variables :
                  output.heap[output.clone][i] = input.sol.Variables[i]

----------------------------------------------------------------------------
\* C33: in SBX crossover the spread factor of an index is a function of one
\* sample u, the one compared against 0.5 being the one of the formula:
\* beta = (2u)^(1/3) <= 1 whenever the branch u <= 0.5 is taken, and
\* beta = (1/(2(1-u)))^(1/3) >= 1 otherwise.

SBXCrossed == input.fn = "Crossover" /\ output # NoCall /\ output.crossed

C33_SpreadOfOneSample ==
    SBXCrossed =>
        \A i \in DOMAIN output.draws :
            IF output.draws[i].low
            THEN ~FloatLess(Float(1), output.draws[i].beta)
            ELSE ~FloatLess(output.draws[i].beta, Float(1))

----------------------------------------------------------------------------
\* C34: SelectByWeights(population, weights) returns nil for an empty
\* population and otherwise an element of the population whose score, the
\* sum over the objectives of v_k * (1 - w_k), is minimal over the
\* population; among the elements of that score it returns the first in
\* iteration order.

ScoreOfIndividual(i) ==
    WeightedScore(input.population[i].Value, input.weights, 1, Float(0))

SelectedByWeights == input.fn = "SelectByWeights" /\ output # NoCall

C34_SelectByWeights ==
    SelectedByWeights =>
        IF input.population = <<>>
        THEN output.bestSolution = 0
        ELSE /\ output.bestSolution \in DOMAIN input.population
             /\ \A j \in DOMAIN input.population :
                    /\ ~FloatLess(ScoreOfIndividual(j),
                                  ScoreOfIndividual(output.bestSolution))
                    /\ j < output.bestSolution =>
                           ScoreOfIndividual(j) #
                               ScoreOfIndividual(output.bestSolution)

----------------------------------------------------------------------------
\* C35: the resource totals of a pod, CPU in milli-units and memory in bytes,
\* are the sums of the requests of its containers, and a sum that would
\* exceed the maximum of the signed integer is the maximum instead of a
\* wrapped value.

RECURSIVE SumOfRequests(_)
SumOfRequests(containers) ==
    IF containers = <<>> THEN 0
    ELSE Head(containers) + SumOfRequests(Tail(containers))

Capped(n) == IF n > MaxInt64 THEN MaxInt64 ELSE n

C35_RequestTotals ==
    /\ input.fn \in {"getPodMilliCPURequest", "getPodMemoryRequest"}
    /\ output # NoCall
    => output.total = Capped(SumOfRequests(input.containers))

----------------------------------------------------------------------------
\* C36: within one scheduling cycle of a pod (one PreScore, then one Score
\* call per candidate node, possibly concurrent) at most one reservation
\* attempt is started and at most one node receives max; PreScore and the
\* Score calls for the other nodes write nothing to the plan store, so that
\* a cycle consumes at most one slot.

\* tryConsumeSlot is running for p
InReservation(call) == call.phase \in {"get", "update"}

\* The nodes for which Score has returned max to p
MaxNodes(sc) == {n \in Nodes : sc[n] = MaxNodeScore}

\* The slots the top solution of the current hint has left, over all groups
\* and nodes
RECURSIVE SlotsOfMovements(_)
SlotsOfMovements(movements) ==
    IF movements = <<>> THEN 0
    ELSE MapSum(Head(movements).AvailableSlots,
                DOMAIN Head(movements).AvailableSlots)
         + SlotsOfMovements(Tail(movements))

SlotsLeft(st) == SlotsOfMovements(TopMovements(CurrentHint(st)))

C36_OneReservationPerCycle ==
    [][/\ \A p \in Pods :
             /\ InReservation(rsv'[p]) /\ ~InReservation(rsv[p]) =>
                    rsv[p].phase = "idle"
             /\ Cardinality(MaxNodes(score'[p])) <= 1
             /\ MaxNodes(score'[p]) # {} =>
                    /\ cycle[p].kind = "MultiObjectiveState"
                    /\ MaxNodes(score'[p]) = {cycle[p].TargetNode}
             /\ commits'[p] <= 1
       /\ store' # store =>
             /\ SlotsLeft(store') = SlotsLeft(store) - 1
             /\ \E p \in Pods :
                    /\ InReservation(rsv[p])
                    /\ rsv'[p].phase = "returned"
                    /\ commits'[p] = commits[p] + 1
                    /\ \A q \in Pods \ {p} : commits'[q] = commits[q]
      ]_vars

\* A cycle is over in which the target node received max for the one slot
\* the pod consumed and another candidate node received min
C36_Witness ==
    \E p \in Pods :
        /\ CycleOver(p)
        /\ commits[p] = 1
        /\ MaxNodes(score[p]) = {cycle[p].TargetNode}
        /\ \E n \in pods[p].Fits : score[p][n] = MinNodeScore
        /\ SlotsLeft(store) = SlotsLeft(plan0) - 1

----------------------------------------------------------------------------
\* C37: the cycle state PreScore has stored has hasHint = true if and only
\* if the target is not empty; and when hasHint is true, the target is the
\* name of a node of the candidate list, the plan PreScore read has a
\* movement for the group of the pod, and in that plan available[target] > 0
\* and target[target] > 0.

\* PreScore has stored the cycle state of p
StateStored(p) == cycle[p].kind = "MultiObjectiveState"

\* The movement of the group of p in the plan its PreScore read
MovementRead(p) ==
    LET ms == TopMovements(cycle[p].Hint)
    IN  ms[FindMovement(ms, getReplicaSetKey(pods[p]), 1)]

C37_CycleState ==
    \A p \in Pods :
        StateStored(p) =>
            /\ cycle[p].HasHint <=> cycle[p].TargetNode # ""
            /\ cycle[p].HasHint =>
                   /\ cycle[p].TargetNode \in pods[p].Fits
                   /\ FindMovement(TopMovements(cycle[p].Hint),
                                   getReplicaSetKey(pods[p]), 1) > 0
                   /\ MapGet(MovementRead(p).AvailableSlots,
                             cycle[p].TargetNode) > 0
                   /\ MapGet(MovementRead(p).TargetDistribution,
                             cycle[p].TargetNode) > 0

\* PreScore found a target in the plan it read, of two candidate nodes with
\* a target the one with a slot
C37_Witness ==
    \E p \in Pods :
        /\ StateStored(p)
        /\ cycle[p].HasHint
        /\ pods[p].Fits = {"A", "B"}
        /\ cycle[p].TargetNode = "A"
        /\ MapGet(MovementRead(p).TargetDistribution, "B") >
              MapGet(MovementRead(p).TargetDistribution, "A")
        /\ MapGet(MovementRead(p).AvailableSlots, "B") = 0

----------------------------------------------------------------------------
\* C38: a pod consumes slots only of the workload group that owns it: a pod
\* with no owner of kind ReplicaSet never receives max and never decrements
\* an available counter, whatever group movements the plan contains.

Ownerless(pod) == FirstReplicaSetOwner(pod.OwnerReferences, 1) = 0

C38_OwnerlessNeverConsumes ==
    \A p \in Pods :
        Ownerless(pods[p]) =>
            /\ \A n \in Nodes : score[p][n] # MaxNodeScore
            /\ commits[p] = 0
            /\ (\A q \in Pods : Ownerless(pods[q])) => store = plan0

----------------------------------------------------------------------------
\* C39: a candidate node that carries the control-plane label is never
\* selected as target and never receives max, even when it is in the
\* filtered candidate list and the plan has a target and available slots for
\* it; control-plane nodes are likewise left out of the fingerprint, so that
\* adding or removing a control-plane node does not change which plan is
\* looked up.

\* The fingerprint of the cluster as it is listed now has been computed; the
\* name under which the plan is looked up is made of the fingerprint alone
FingerprintCurrent ==
    input.fn = "fingerprint" /\ output # NoCall /\ ~input.stale

C39_ControlPlaneExcluded ==
    /\ \A p \in Pods :
          /\ StateStored(p) => cycle[p].TargetNode \notin controlPlane
          /\ \A n \in controlPlane : score[p][n] # MaxNodeScore
    /\ FingerprintCurrent /\ input.changes \subseteq {"control-plane inserted",
                                                       "control-plane removed"} =>
          output.last = output.first

\* The fingerprint was computed again after a control-plane node had joined
\* and one had left a cluster with worker nodes; then the pod, with the
\* control-plane node C among its candidates and the largest target and a
\* slot on C in the plan, got A as target, max for A and min for C
C39_Witness ==
    /\ FingerprintCurrent
    /\ output.again
    /\ input.changes = {"control-plane inserted", "control-plane removed"}
    /\ output.lastCluster.workers # {}
    /\ \E p \in Pods :
          /\ CycleOver(p)
          /\ StateStored(p)
          /\ "C" \in controlPlane \cap pods[p].Fits
          /\ AvailableIn(CurrentHint(plan0), cycle[p].RSKey, "C") > 0
          /\ cycle[p].TargetNode = "A"
          /\ score[p]["A"] = MaxNodeScore
          /\ score[p]["C"] = MinNodeScore

----------------------------------------------------------------------------
\* C40: producing offspring never changes an individual of the parent
\* population: Crossover works on fresh copies of both parents and Mutate is
\* applied to those copies only, so that after the offspring loop of any
\* generation the solution (bits or variables) and the objective values of
\* every parent are what they were before the loop, also when the same
\* parent is selected several times.

C40_ParentsUnchanged ==
    /\ input.fn = "RunOffspring" /\ output # NoCall =>
          /\ Snapshot(output.heap, output.population) = output.parents
          /\ \A i \in DOMAIN output.offspring :
                 \A j \in DOMAIN output.population :
                    output.offspring[i].Solution # output.population[j].Solution
    /\ input.fn = "RealOffspring" /\ output # NoCall =>
          /\ \A a \in DOMAIN input.heap : output.heap[a] = input.heap[a]
          /\ {output.child1, output.child2} \cap DOMAIN input.heap = {}
          /\ output.child1 # output.child2

\* The offspring loop of the second generation is over for a population of
\* more than one individual: a round drew the same parent twice, and a child
\* differs from every parent
C40_Witness ==
    /\ HeapRunAt("generation")
    /\ output.gen = 1
    /\ Len(output.offspring) = input.PopSize
    /\ output.twice
    /\ \E i \in DOMAIN output.offspring :
          \A j \in DOMAIN output.population :
             output.heap[output.offspring[i].Solution]
                # output.heap[output.population[j].Solution]
    /\ input.PopSize > 1

====
